---- MODULE Spec2Model ----
(***************************************************************************)
(* The schema workbench backend.  Relational normalization engine:         *)
(* attribute closure, candidate keys, minimal cover                        *)
(* (backend/api/normalization_utils.py), the analysis, the 3NF / BCNF      *)
(* decomposition and the save endpoints                                    *)
(* (backend/api/normalization_routes.py); the identifier sanitizer and the *)
(* WHERE / HAVING builders (backend/api/helpers.py); the DML endpoint      *)
(* (backend/api/dml_routes.py); the canvas diff apply (backend/app.py) and  *)
(* the SELECT endpoint (backend/api/query_routes.py).  Each part has its   *)
(* own variables and its own specification (Spec with SpecBcnf and         *)
(* SpecCover, SpecAnalyze, SpecSave, SpecSanitize, SpecClause, SpecDml,    *)
(* SpecSchema); SpecHandlers serves one request to one of the handlers     *)
(* that open a connection.  The endpoints keep no state between requests.  *)
(*                                                                         *)
(* Attributes are the integers 1..NumAttrs; their numeric order stands for *)
(* the lexicographic order of the attribute names.  A Python dict of FDs   *)
(* { frozenset(det): set(deps) } is a sequence of records [det, deps] with *)
(* pairwise distinct det, in insertion order.  A list of (det, dep) pairs  *)
(* is a sequence of records [det, dep].  The iteration order of a Python   *)
(* set of strings depends on the per-process string hashes: it is the      *)
(* order of the attributes in a permutation ord that every request which   *)
(* iterates a set chooses freely.                                          *)
(***************************************************************************)
EXTENDS Integers, Sequences, FiniteSets, TLC

\* Size of the attribute universe explored.
NumAttrs == 4
\* Largest number of entries of the processedFds dict explored.
MaxFDs == 2

Attrs == 1..NumAttrs

\* The closure, key, cover and decomposition requests.
VARIABLES
    attributes,          \* payload 'attributes': the attribute set U of the table
    processed_fds,       \* payload 'processedFds' as { frozenset: set }, in dict order
    op,                  \* the operation whose result the state holds
    status,              \* HTTP status of the last response (0: none yet)
    closure_arg,         \* calculate_closure: attributes_to_close
    closure,             \* calculate_closure: the returned set
    candidate_keys,      \* find_candidate_keys: the returned sorted list
    min_cover,           \* get_minimal_cover: the returned dict
    decomposed_schemas,  \* decompose_3nf / decompose_bcnf: list of attribute sets
    work_list,           \* decompose_bcnf: schemas still to check
    decomposed_tables,   \* response 'decomposed_tables': [attributes, primary_key]
    lost_fds             \* response 'lost_fds' (as the lost entries of processedFds)

fd_vars == <<attributes, processed_fds, op, status, closure_arg, closure,
             candidate_keys, min_cover, decomposed_schemas, work_list,
             decomposed_tables, lost_fds>>

\* sanitize_identifier.
VARIABLES
    raw_name,         \* sanitize_identifier: the argument name
    sanitized,        \* sanitize_identifier: the returned string, or None
    sanitized_twice,  \* sanitize_identifier applied to its own result
    san_op            \* the sanitizer call whose result the state holds

san_vars == <<raw_name, sanitized, sanitized_twice, san_op>>

\* build_where_clause and build_having_clause.
VARIABLES
    conditions_type,         \* type of the argument conditions_list ("list" or another JSON type)
    conditions_list,         \* the argument conditions_list, when a list
    allowed_select_aliases,  \* build_having_clause: the argument allowed_select_aliases
    wh_op,                   \* the builder whose result the state holds
    clause_sql,              \* the returned SQL fragment, as the list of its words
    clause_params,           \* the returned params list
    clause_error             \* the exception the builder raised ("": none)

wh_vars == <<conditions_type, conditions_list, allowed_select_aliases, wh_op,
             clause_sql, clause_params, clause_error>>

\* execute_dml_statement.
VARIABLES
    dml_request,  \* the request: body kind and the payload keys operation, table, values, set, where
    dml_op,       \* "idle" before the request is served, "done" after
    dml_status,   \* HTTP status of the response (0: none yet)
    dml_log       \* what the handler did to the database, in order

dml_vars == <<dml_request, dml_op, dml_status, dml_log>>

\* save_decomposition.
VARIABLES
    sv_request,  \* the request: body kind and the payload keys original_table, decomposed_tables
    sv_op,       \* "idle" before the request is served, "done" after
    sv_status,   \* HTTP status of the response (0: none yet)
    sv_log       \* what the handler did to the database, in order

sv_vars == <<sv_request, sv_op, sv_status, sv_log>>

\* analyze_normalization.
VARIABLES
    table_attributes,  \* the columns of the table, as get_table_schema_details returns them
    pk_set,            \* the designated primary key of the table
    user_fds_raw,      \* payload 'fds': the list of [determinants, dependents]
    an_op,             \* "idle" before the request is served, "done" after
    an_status,         \* HTTP status of the response (0: none yet)
    results            \* the response: processedFds, candidateKeys and the analysis of 2NF, 3NF, BCNF

an_vars == <<table_attributes, pk_set, user_fds_raw, an_op, an_status,
             results>>

\* handle_schema.
VARIABLES
    hs_request,   \* the request: body kind and the payload keys tables, relationships
    hs_op,        \* "idle" before the request is served, "done" after
    hs_status,    \* HTTP status of the response (0: none yet)
    hs_response,  \* the response: errors, dropped_tables, added_foreign_keys, created_tables
    hs_log        \* what the handler did to the database, in order

hs_vars == <<hs_request, hs_op, hs_status, hs_response, hs_log>>

\* execute_select_query.
VARIABLES
    q_request,  \* the request: body kind and the payload keys from, select
    q_op,       \* "idle" before the request is served, "done" after
    q_status,   \* HTTP status of the response (0: none yet)
    q_log       \* what the handler did to the database, in order

q_vars == <<q_request, q_op, q_status, q_log>>

vars == <<fd_vars, san_vars, wh_vars, dml_vars, sv_vars, an_vars, hs_vars, q_vars>>

\* Python's None.
None == <<"None">>

\* No request.
NoRequest == [body |-> "none"]

\* results of analyze_normalization as initialized (lines 22-36): nothing checked.
NotChecked == [status |-> "NOT_CHECKED", violations |-> << >>]
NoResults ==
    [processedFds |-> << >>, candidateKeys |-> << >>, nf2 |-> NotChecked,
     nf3 |-> NotChecked, bcnf |-> NotChecked]

\* The response of handle_schema as initialized (lines 160-163): nothing done.
NoSchemaResponse ==
    [errors |-> {}, dropped_tables |-> << >>, added_foreign_keys |-> << >>,
     created_tables |-> << >>]

\* No normalization request has been made.
FdBlank ==
    /\ attributes = {}
    /\ processed_fds = << >>
    /\ op = "none"
    /\ status = 0
    /\ closure_arg = {}
    /\ closure = {}
    /\ candidate_keys = << >>
    /\ min_cover = << >>
    /\ decomposed_schemas = << >>
    /\ work_list = << >>
    /\ decomposed_tables = << >>
    /\ lost_fds = << >>

\* No sanitizer call has been made.
SanBlank ==
    /\ raw_name = None
    /\ sanitized = None
    /\ sanitized_twice = None
    /\ san_op = "none"

\* No clause has been built.
WhBlank ==
    /\ conditions_type = "list"
    /\ conditions_list = << >>
    /\ allowed_select_aliases = {}
    /\ wh_op = "none"
    /\ clause_sql = << >>
    /\ clause_params = << >>
    /\ clause_error = ""

\* No DML request has been made.
DmlBlank ==
    /\ dml_request = NoRequest
    /\ dml_op = "none"
    /\ dml_status = 0
    /\ dml_log = << >>

\* No decomposition has been saved.
SvBlank ==
    /\ sv_request = NoRequest
    /\ sv_op = "none"
    /\ sv_status = 0
    /\ sv_log = << >>

\* No table has been analyzed.
AnBlank ==
    /\ table_attributes = {}
    /\ pk_set = {}
    /\ user_fds_raw = << >>
    /\ an_op = "none"
    /\ an_status = 0
    /\ results = NoResults

\* No schema has been applied.
HsBlank ==
    /\ hs_request = NoRequest
    /\ hs_op = "none"
    /\ hs_status = 0
    /\ hs_response = NoSchemaResponse
    /\ hs_log = << >>

\* No query has been made.
QBlank ==
    /\ q_request = NoRequest
    /\ q_op = "none"
    /\ q_status = 0
    /\ q_log = << >>

\* The state outside the normalization requests, and its value when nothing else was used.
beyond_fd == <<san_vars, wh_vars, dml_vars, sv_vars, an_vars, hs_vars, q_vars>>
BeyondFdBlank == SanBlank /\ WhBlank /\ DmlBlank /\ SvBlank /\ AnBlank /\ HsBlank /\ QBlank

\* The state outside sanitize_identifier, and its value when nothing else was used.
beyond_san == <<fd_vars, wh_vars, dml_vars, sv_vars, an_vars, hs_vars, q_vars>>
BeyondSanBlank == FdBlank /\ WhBlank /\ DmlBlank /\ SvBlank /\ AnBlank /\ HsBlank /\ QBlank

\* The state outside the clause builders, and its value when nothing else was used.
beyond_wh == <<fd_vars, san_vars, dml_vars, sv_vars, an_vars, hs_vars, q_vars>>
BeyondWhBlank == FdBlank /\ SanBlank /\ DmlBlank /\ SvBlank /\ AnBlank /\ HsBlank /\ QBlank

\* The state outside execute_dml_statement, and its value when nothing else was used.
beyond_dml == <<fd_vars, san_vars, wh_vars, sv_vars, an_vars, hs_vars, q_vars>>
BeyondDmlBlank == FdBlank /\ SanBlank /\ WhBlank /\ SvBlank /\ AnBlank /\ HsBlank /\ QBlank

\* The state outside save_decomposition, and its value when nothing else was used.
beyond_sv == <<fd_vars, san_vars, wh_vars, dml_vars, an_vars, hs_vars, q_vars>>
BeyondSvBlank == FdBlank /\ SanBlank /\ WhBlank /\ DmlBlank /\ AnBlank /\ HsBlank /\ QBlank

\* The state outside analyze_normalization, and its value when nothing else was used.
beyond_an == <<fd_vars, san_vars, wh_vars, dml_vars, sv_vars, hs_vars, q_vars>>
BeyondAnBlank == FdBlank /\ SanBlank /\ WhBlank /\ DmlBlank /\ SvBlank /\ HsBlank /\ QBlank

\* The state outside handle_schema, and its value when nothing else was used.
beyond_hs == <<fd_vars, san_vars, wh_vars, dml_vars, sv_vars, an_vars, q_vars>>
BeyondHsBlank == FdBlank /\ SanBlank /\ WhBlank /\ DmlBlank /\ SvBlank /\ AnBlank /\ QBlank

\* The state outside execute_select_query, and its value when nothing else was used.
beyond_q == <<fd_vars, san_vars, wh_vars, dml_vars, sv_vars, an_vars, hs_vars>>
BeyondQBlank == FdBlank /\ SanBlank /\ WhBlank /\ DmlBlank /\ SvBlank /\ AnBlank /\ HsBlank

(***************************************************************************)
(* Generic helpers for Python lists, sets and sorting.                     *)
(***************************************************************************)
Range(s) == {s[i] : i \in 1..Len(s)}

Min(S) == CHOOSE x \in S : \A y \in S : x <= y

\* Python tuple comparison of sorted(S) < sorted(T).
TupleLess(S, T) ==
    /\ S # T
    /\ LET d == (S \ T) \cup (T \ S)
           m == Min(d)
       IN  \/ m \in S /\ \E x \in T : x > m
           \/ m \in T /\ ~ \E x \in S : x > m

\* The permutations of a set, as sequences.
Perms(S) ==
    {p \in [1..Cardinality(S) -> S] : \A i, j \in 1..Cardinality(S) : p[i] = p[j] => i = j}

\* list(S) for a set S of attributes: its elements in the process's hash order.
RECURSIVE SetToList(_, _)
SetToList(S, ord) ==
    IF ord = << >> THEN << >>
    ELSE (IF Head(ord) \in S THEN <<Head(ord)>> ELSE << >>) \o SetToList(S, Tail(ord))

\* sorted(S) for a set of sets, by the tuple order of their sorted elements.
RECURSIVE SortedTuples(_)
SortedTuples(S) ==
    IF S = {} THEN << >>
    ELSE LET m == CHOOSE x \in S : \A y \in S \ {x} : TupleLess(x, y)
         IN  <<m>> \o SortedTuples(S \ {m})

\* Index of the dict entry with key det, 0 when there is none.
DictIndex(d, det) ==
    IF \E i \in 1..Len(d) : d[i].det = det
    THEN CHOOSE i \in 1..Len(d) : d[i].det = det
    ELSE 0

\* d[det].add(dep), creating the entry at the end when det is a new key.
DictAdd(d, det, dep) ==
    LET i == DictIndex(d, det)
    IN  IF i = 0 THEN Append(d, [det |-> det, deps |-> {dep}])
        ELSE [d EXCEPT ![i].deps = @ \cup {dep}]

(***************************************************************************)
(* calculate_closure                                                       *)
(***************************************************************************)
\* One pass of the for loop over fds_dict.items(), from entry i on.
RECURSIVE ClosurePass(_, _, _)
ClosurePass(c, fds_dict, i) ==
    IF i > Len(fds_dict) THEN c
    ELSE LET determinant_set == fds_dict[i].det
             dependents == fds_dict[i].deps
             c2 == IF determinant_set \subseteq c /\ ~(dependents \subseteq c)
                   THEN c \cup (dependents \ c)
                   ELSE c
         IN  ClosurePass(c2, fds_dict, i + 1)

\* A closure that makes a single pass over the FDs.
ClosureLoopSinglePass(c, fds_dict) == ClosurePass(c, fds_dict, 1)

\* The while loop: passes are repeated until one changes nothing.
RECURSIVE ClosureLoop(_, _)
ClosureLoop(c, fds_dict) ==
    LET c2 == ClosurePass(c, fds_dict, 1)
    IN  IF c2 = c THEN c ELSE ClosureLoop(c2, fds_dict)

calculate_closure(attributes_to_close, fds_dict, all_attributes) ==
    ClosureLoop(attributes_to_close, fds_dict)

(***************************************************************************)
(* find_candidate_keys                                                     *)
(***************************************************************************)
\* combinations(attributes, k): the k-subsets of the list's positions in
\* lexicographic order, each mapped to the set of attributes at them.
combinations(attrs_list, k) ==
    LET pos == SortedTuples({P \in SUBSET (1..Len(attrs_list)) : Cardinality(P) = k})
    IN  [i \in 1..Len(pos) |-> {attrs_list[j] : j \in pos[i]}]

\* A loop body that records every superkey, minimal or not.
CandidateKeyStepNoMinimality(cks, key_set, fds_dict, all_attributes_set) ==
    IF calculate_closure(key_set, fds_dict, all_attributes_set) = all_attributes_set
    THEN Append(cks, key_set)
    ELSE cks

\* The body of the loop over possible_keys for one key_tuple.
CandidateKeyStep(cks, key_set, fds_dict, all_attributes_set) ==
    IF calculate_closure(key_set, fds_dict, all_attributes_set) = all_attributes_set
    THEN LET is_minimal == ~ \E i \in 1..Len(cks) : cks[i] \subseteq key_set
             NotSuperset(ck) == ~(key_set \subseteq ck)
         IN  IF is_minimal THEN Append(SelectSeq(cks, NotSuperset), key_set) ELSE cks
    ELSE cks

RECURSIVE CandidateKeyLevel(_, _, _, _, _)
CandidateKeyLevel(cks, possible_keys, i, fds_dict, all_attributes_set) ==
    IF i > Len(possible_keys) THEN cks
    ELSE CandidateKeyLevel(
             CandidateKeyStep(cks, possible_keys[i], fds_dict, all_attributes_set),
             possible_keys, i + 1, fds_dict, all_attributes_set)

\* The loop for k in range(1, len(attributes) + 1).
RECURSIVE CandidateKeyLevels(_, _, _, _)
CandidateKeyLevels(cks, k, attrs_list, fds_dict) ==
    IF k > Len(attrs_list) THEN cks
    ELSE CandidateKeyLevels(
             CandidateKeyLevel(cks, combinations(attrs_list, k), 1, fds_dict,
                               Range(attrs_list)),
             k + 1, attrs_list, fds_dict)

\* Returns the sorted list of the keys found (each key as its attribute set).
find_candidate_keys(attrs_list, fds_dict) ==
    SortedTuples(Range(CandidateKeyLevels(<< >>, 1, attrs_list, fds_dict)))

(***************************************************************************)
(* get_minimal_cover                                                       *)
(***************************************************************************)
\* Step 1, inner loop: the pairs (det, dep) of one dict entry, dep in set order.
RECURSIVE StandardPairs(_, _)
StandardPairs(det, deps_list) ==
    IF deps_list = << >> THEN << >>
    ELSE (IF Head(deps_list) \notin det
          THEN <<[det |-> det, dep |-> Head(deps_list)]>>
          ELSE << >>) \o StandardPairs(det, Tail(deps_list))

\* Step 1: standard_fds_list.
RECURSIVE StandardFdsList(_, _, _)
StandardFdsList(fds_dict, i, ord) ==
    IF i > Len(fds_dict) THEN << >>
    ELSE StandardPairs(fds_dict[i].det, SetToList(fds_dict[i].deps, ord))
         \o StandardFdsList(fds_dict, i + 1, ord)

\* The dict { det: set(dep) } built from a list of pairs, keys in first-seen order.
RECURSIVE PairsToDict(_, _, _)
PairsToDict(d, pairs, i) ==
    IF i > Len(pairs) THEN d
    ELSE PairsToDict(DictAdd(d, pairs[i].det, pairs[i].dep), pairs, i + 1)

\* A step 2 that never drops an attribute of a determinant.
MinimizeDetNothingDropped(minimized_det, det_list, dep, standard_fds_dict_temp) ==
    minimized_det

\* Step 2, inner loop: try to drop the attributes of det_list from minimized_det.
RECURSIVE MinimizeDet(_, _, _, _)
MinimizeDet(minimized_det, det_list, dep, standard_fds_dict_temp) ==
    IF det_list = << >> THEN minimized_det
    ELSE LET attr == Head(det_list)
             temp_det == minimized_det \ {attr}
             reduced ==
                 IF /\ Cardinality(minimized_det) > 1
                    /\ dep \in calculate_closure(temp_det, standard_fds_dict_temp, {})
                 THEN temp_det
                 ELSE minimized_det
         IN  MinimizeDet(reduced, Tail(det_list), dep, standard_fds_dict_temp)

\* Step 2: minimized_lhs_list.
MinimizedLhsList(current_fds_list, standard_fds_dict_temp, ord) ==
    [i \in 1..Len(current_fds_list) |->
        LET det_fset == current_fds_list[i].det
            dep == current_fds_list[i].dep
        IN  [det |-> IF Cardinality(det_fset) > 1
                     THEN MinimizeDet(det_fset, SetToList(det_fset, ord), dep,
                                      standard_fds_dict_temp)
                     ELSE det_fset,
             dep |-> dep]]

\* Step 3: temp_cover_dict, a copy of current_fds_dict without det_fset -> dep.
TempCoverDict(current_fds_dict, det_fset, dep) ==
    LET removed == [i \in 1..Len(current_fds_dict) |->
                       IF current_fds_dict[i].det = det_fset
                       THEN [current_fds_dict[i] EXCEPT !.deps = @ \ {dep}]
                       ELSE current_fds_dict[i]]
        NonEmpty(e) == e.deps # {}
    IN  SelectSeq(removed, NonEmpty)

\* Step 3: is the pair kept in final_min_cover_list?
IsEssential(current_fds_dict, det_fset, dep) ==
    dep \notin calculate_closure(det_fset,
                                 TempCoverDict(current_fds_dict, det_fset, dep), {})

\* Step 3: final_min_cover_list.
FinalMinCoverList(current_fds_list, current_fds_dict) ==
    LET Keep(p) == IsEssential(current_fds_dict, p.det, p.dep)
    IN  SelectSeq(current_fds_list, Keep)

get_minimal_cover(fds_dict, ord) ==
    LET all_attributes == UNION {fds_dict[i].det \cup fds_dict[i].deps : i \in 1..Len(fds_dict)}
        standard_fds_list == StandardFdsList(fds_dict, 1, ord)
        standard_fds_dict_temp == PairsToDict(<< >>, standard_fds_list, 1)
        current_fds_list == MinimizedLhsList(standard_fds_list, standard_fds_dict_temp, ord)
        current_fds_dict == PairsToDict(<< >>, current_fds_list, 1)
        final_min_cover_list == FinalMinCoverList(current_fds_list, current_fds_dict)
    IN  IF all_attributes = {} THEN << >>
        ELSE PairsToDict(<< >>, final_min_cover_list, 1)

(***************************************************************************)
(* check_fd_preservation                                                   *)
(***************************************************************************)
\* The entries of original_fds_dict whose attributes fit in no schema.
check_fd_preservation(original_fds_dict, schemas) ==
    LET Lost(fd) == ~ \E i \in 1..Len(schemas) : (fd.det \cup fd.deps) \subseteq schemas[i]
    IN  SelectSeq(original_fds_dict, Lost)

(***************************************************************************)
(* decompose_3nf                                                           *)
(***************************************************************************)
\* Step 2: one schema det | deps per entry of the minimal cover.
CoverSchemas(cover) == [i \in 1..Len(cover) |-> cover[i].det \cup cover[i].deps]

\* Step 3: ck_found.
CkFound(schemas, candidate_keys_sets) ==
    \E i \in 1..Len(schemas) : \E j \in 1..Len(candidate_keys_sets) :
        candidate_keys_sets[j] \subseteq schemas[i]

\* A synthesis that leaves out step 3.
EnsureCandidateKeySkipped(schemas, candidate_keys_sets) == schemas

\* Step 3: the schema list after the candidate key check.
EnsureCandidateKey(schemas, candidate_keys_sets) ==
    IF ~CkFound(schemas, candidate_keys_sets) /\ candidate_keys_sets # << >>
    THEN LET ck_to_add == candidate_keys_sets[1]
             already_covered == \E i \in 1..Len(schemas) : ck_to_add \subseteq schemas[i]
         IN  IF ~already_covered THEN Append(schemas, ck_to_add) ELSE schemas
    ELSE schemas

\* Step 4: minimal_schemas, built over the schemas from position i on.
RECURSIVE MinimalSchemas3NF(_, _, _)
MinimalSchemas3NF(minimal_schemas, schemas, i) ==
    IF i > Len(schemas) THEN minimal_schemas
    ELSE LET s1 == schemas[i]
             is_subset == \E j \in 1..Len(schemas) : s1 # schemas[j] /\ s1 \subseteq schemas[j]
         IN  MinimalSchemas3NF(
                 IF ~is_subset /\ s1 \notin Range(minimal_schemas)
                 THEN Append(minimal_schemas, s1)
                 ELSE minimal_schemas,
                 schemas, i + 1)

\* Step 5: schema_pk of one schema.
SchemaPk3NF(schema_set, cover, candidate_keys_sets) ==
    IF \E i \in 1..Len(cover) : cover[i].det \subseteq schema_set
    THEN cover[Min({i \in 1..Len(cover) : cover[i].det \subseteq schema_set})].det
    ELSE IF \E j \in 1..Len(candidate_keys_sets) : candidate_keys_sets[j] \subseteq schema_set
         THEN candidate_keys_sets[Min({j \in 1..Len(candidate_keys_sets) :
                                        candidate_keys_sets[j] \subseteq schema_set})]
         ELSE {}

\* Steps 2-4: the final decomposed_schemas.
Schemas3NF(cover, candidate_keys_sets) ==
    MinimalSchemas3NF(<< >>, EnsureCandidateKey(CoverSchemas(cover), candidate_keys_sets), 1)

\* Step 5: final_schemas_details.
Tables3NF(schemas, cover, candidate_keys_sets) ==
    [i \in 1..Len(schemas) |->
        [attributes |-> schemas[i],
         primary_key |-> SchemaPk3NF(schemas[i], cover, candidate_keys_sets)]]

(***************************************************************************)
(* decompose_bcnf                                                          *)
(***************************************************************************)
\* relevant_fds / projected_fds: the entries with det inside the schema, their
\* dependents cut down to the schema, kept when still non-trivial.
RelevantFds(fds_dict, schema_set) ==
    LET cut == [i \in 1..Len(fds_dict) |->
                   [det |-> fds_dict[i].det, deps |-> fds_dict[i].deps \cap schema_set]]
        Relevant(fd) == /\ fd.det \subseteq schema_set
                        /\ fd.deps # {}
                        /\ ~(fd.deps \subseteq fd.det)
    IN  SelectSeq(cut, Relevant)

\* The relevant FDs whose determinant is not a superkey of the schema.
ViolationIndexes(relevant_fds, current_schema_set) ==
    {i \in 1..Len(relevant_fds) :
        calculate_closure(relevant_fds[i].det, relevant_fds, current_schema_set)
            # current_schema_set}

\* list.remove(x): drops the first occurrence.
RemoveFirst(s, x) ==
    IF x \in Range(s)
    THEN LET i == Min({j \in 1..Len(s) : s[j] = x})
         IN  SubSeq(s, 1, i - 1) \o SubSeq(s, i + 1, Len(s))
    ELSE s

\* A test that never finds a schema inside another one.
IsProperSubsetOfNone(x, schemas) == FALSE

\* any(x != s and x.issubset(s) for s in schemas).
IsProperSubsetOfSome(x, schemas) ==
    \E i \in 1..Len(schemas) : x # schemas[i] /\ x \subseteq schemas[i]

AppendIfAbsent(s, x) == IF x \in Range(s) THEN s ELSE Append(s, x)

\* A split that forgets the determinant in R1 (the halves share no attribute).
Schema1WithoutDeterminant(det_fset, rel_deps_set) == rel_deps_set

\* Decompose: R1 = X U Y.
Schema1(det_fset, rel_deps_set) == det_fset \cup rel_deps_set

\* A split whose second half is the whole schema again.
Schema2Whole(current_schema_set, det_fset, rel_deps_set) == current_schema_set

\* Decompose: R2 = R - (Y - X).
Schema2(current_schema_set, det_fset, rel_deps_set) ==
    (current_schema_set \ rel_deps_set) \cup det_fset

\* decomposed_schemas after the split of current_schema_set on det -> rel_deps.
SplitSchemas(schemas, current_schema_set, det_fset, rel_deps_set) ==
    LET schema1 == Schema1(det_fset, rel_deps_set)
        schema2 == Schema2(current_schema_set, det_fset, rel_deps_set)
        removed == RemoveFirst(schemas, current_schema_set)
        is_s1_subset == IsProperSubsetOfSome(schema1, removed)
        is_s2_subset == IsProperSubsetOfSome(schema2, removed)
        with1 == IF ~is_s1_subset /\ schema1 \notin Range(removed)
                 THEN Append(removed, schema1) ELSE removed
    IN  IF ~is_s2_subset /\ schema2 \notin Range(with1)
        THEN Append(with1, schema2) ELSE with1

\* work_list after the same split (before the clean-up).
SplitWorkList(wl, schemas, current_schema_set, det_fset, rel_deps_set) ==
    LET schema1 == Schema1(det_fset, rel_deps_set)
        schema2 == Schema2(current_schema_set, det_fset, rel_deps_set)
        removed == RemoveFirst(schemas, current_schema_set)
        is_s1_subset == IsProperSubsetOfSome(schema1, removed)
        is_s2_subset == IsProperSubsetOfSome(schema2, removed)
        add1 == ~is_s1_subset /\ schema1 \notin Range(removed)
        with1 == IF add1 THEN Append(removed, schema1) ELSE removed
        wl1 == IF add1 THEN AppendIfAbsent(wl, schema1) ELSE wl
    IN  IF ~is_s2_subset /\ schema2 \notin Range(with1)
        THEN AppendIfAbsent(wl1, schema2) ELSE wl1

\* The clean-up of work_list after a split, over the copy current_work_list.
RECURSIVE CleanWorkList(_, _, _)
CleanWorkList(wl, current_work_list, schemas) ==
    IF current_work_list = << >> THEN wl
    ELSE LET w_schema == Head(current_work_list)
         IN  CleanWorkList(
                 IF IsProperSubsetOfSome(w_schema, schemas) /\ w_schema \in Range(wl)
                 THEN RemoveFirst(wl, w_schema) ELSE wl,
                 Tail(current_work_list), schemas)

\* decomposed_schemas.sort(key=len): a stable sort by size.
RECURSIVE SortByLen(_, _)
SortByLen(schemas, k) ==
    IF k > NumAttrs THEN << >>
    ELSE LET HasLen(x) == Cardinality(x) = k
         IN  SelectSeq(schemas, HasLen) \o SortByLen(schemas, k + 1)

\* Post-processing: minimal_schemas over the sorted schemas from position i on.
RECURSIVE MinimalSchemasBCNF(_, _, _)
MinimalSchemasBCNF(minimal_schemas, sorted_schemas, i) ==
    IF i > Len(sorted_schemas) THEN minimal_schemas
    ELSE LET s1 == sorted_schemas[i]
             is_subset == IsProperSubsetOfSome(s1, minimal_schemas)
             NotSuperset(x) == ~(s1 \subseteq x)
         IN  MinimalSchemasBCNF(
                 IF ~is_subset THEN Append(SelectSeq(minimal_schemas, NotSuperset), s1)
                 ELSE minimal_schemas,
                 sorted_schemas, i + 1)

\* sorted(list(schema_set)).
RECURSIVE SortedList(_)
SortedList(S) == IF S = {} THEN << >> ELSE <<Min(S)>> \o SortedList(S \ {Min(S)})

\* min(candidate_keys_tuples, key=len): the first key of the smallest length.
MinByLen(keys) ==
    LET shortest == Min({Cardinality(keys[i]) : i \in 1..Len(keys)})
    IN  keys[Min({i \in 1..Len(keys) : Cardinality(keys[i]) = shortest})]

\* schema_pk of one final schema.
SchemaPkBCNF(schema_set, fds_dict) ==
    LET projected_fds == RelevantFds(fds_dict, schema_set)
        candidate_keys_tuples == find_candidate_keys(SortedList(schema_set), projected_fds)
    IN  IF candidate_keys_tuples # << >> THEN MinByLen(candidate_keys_tuples)
        ELSE schema_set

\* final_schemas_details.
TablesBCNF(schemas, fds_dict) ==
    [i \in 1..Len(schemas) |->
        [attributes |-> schemas[i], primary_key |-> SchemaPkBCNF(schemas[i], fds_dict)]]

(***************************************************************************)
(* The requests.  The payload (attributes, processedFds) is fixed by Init; *)
(* every request works on it and leaves its result in the state.           *)
(***************************************************************************)
\* An FD as analyze_normalization accepts it: both sides non-empty and disjoint.
FDs(U) == {fd \in [det : SUBSET U \ {{}}, deps : SUBSET U \ {{}}] : fd.det \cap fd.deps = {}}

\* The dicts of at most MaxFDs such FDs (keys pairwise distinct), in every order.
FDDicts(U) ==
    UNION {{d \in [1..n -> FDs(U)] : \A i, j \in 1..n : d[i].det = d[j].det => i = j}
           : n \in 0..MaxFDs}

Init ==
    /\ attributes \in {1..n : n \in 1..NumAttrs}
    /\ processed_fds \in FDDicts(attributes)
    /\ op = "idle"
    /\ status = 0
    /\ closure_arg = {}
    /\ closure = {}
    /\ candidate_keys = << >>
    /\ min_cover = << >>
    /\ decomposed_schemas = << >>
    /\ work_list = << >>
    /\ decomposed_tables = << >>
    /\ lost_fds = << >>
    /\ BeyondFdBlank

\* No request has been served yet: every request starts from the payload alone
\* (the endpoints keep no state between requests).
Idle == op = "idle"

\* calculate_closure(X, processedFds, attributes) for some X.
CalculateClosure ==
    /\ Idle
    /\ \E X \in SUBSET attributes :
        /\ closure_arg' = X
        /\ closure' = calculate_closure(X, processed_fds, attributes)
    /\ op' = "closure"
    /\ status' = 0
    /\ candidate_keys' = << >>
    /\ min_cover' = << >>
    /\ decomposed_schemas' = << >>
    /\ work_list' = << >>
    /\ decomposed_tables' = << >>
    /\ lost_fds' = << >>
    /\ UNCHANGED <<attributes, processed_fds>>
    /\ UNCHANGED beyond_fd

\* find_candidate_keys(list(attributes), processedFds), the list in any set order.
FindCandidateKeys ==
    /\ Idle
    /\ \E ord \in Perms(attributes) :
        candidate_keys' = find_candidate_keys(SetToList(attributes, ord), processed_fds)
    /\ op' = "candidate_keys"
    /\ status' = 0
    /\ closure_arg' = {}
    /\ closure' = {}
    /\ min_cover' = << >>
    /\ decomposed_schemas' = << >>
    /\ work_list' = << >>
    /\ decomposed_tables' = << >>
    /\ lost_fds' = << >>
    /\ UNCHANGED <<attributes, processed_fds>>
    /\ UNCHANGED beyond_fd

\* get_minimal_cover(processedFds).
GetMinimalCover ==
    /\ Idle
    /\ \E ord \in Perms(attributes) :
        min_cover' = get_minimal_cover(processed_fds, ord)
    /\ op' = "minimal_cover"
    /\ status' = 0
    /\ closure_arg' = {}
    /\ closure' = {}
    /\ candidate_keys' = << >>
    /\ decomposed_schemas' = << >>
    /\ work_list' = << >>
    /\ decomposed_tables' = << >>
    /\ lost_fds' = << >>
    /\ UNCHANGED <<attributes, processed_fds>>
    /\ UNCHANGED beyond_fd

\* The candidateKeys of the payload: those analyze_normalization reported.
PayloadCandidateKeys == find_candidate_keys(SortedList(attributes), processed_fds)

\* POST /api/decompose/3nf with a complete payload.
Decompose3NF ==
    /\ Idle
    /\ attributes # {} /\ PayloadCandidateKeys # << >> /\ processed_fds # << >>
    /\ \E ord \in Perms(attributes) :
        LET cover == get_minimal_cover(processed_fds, ord)
            schemas == Schemas3NF(cover, PayloadCandidateKeys)
        IN  /\ min_cover' = cover
            /\ decomposed_schemas' = schemas
            /\ decomposed_tables' = Tables3NF(schemas, cover, PayloadCandidateKeys)
    /\ candidate_keys' = PayloadCandidateKeys
    /\ lost_fds' = << >>
    /\ op' = "3nf"
    /\ status' = 200
    /\ closure_arg' = {}
    /\ closure' = {}
    /\ work_list' = << >>
    /\ UNCHANGED <<attributes, processed_fds>>
    /\ UNCHANGED beyond_fd

\* POST /api/decompose/3nf or /api/decompose/bcnf with an empty processedFds.
DecomposeRejected ==
    /\ Idle
    /\ attributes = {} \/ processed_fds = << >>
    /\ op' = "rejected"
    /\ status' = 400
    /\ closure_arg' = {}
    /\ closure' = {}
    /\ candidate_keys' = << >>
    /\ min_cover' = << >>
    /\ decomposed_schemas' = << >>
    /\ work_list' = << >>
    /\ decomposed_tables' = << >>
    /\ lost_fds' = << >>
    /\ UNCHANGED <<attributes, processed_fds>>
    /\ UNCHANGED beyond_fd

\* POST /api/decompose/bcnf, up to the entry of the main decomposition loop.
DecomposeBcnfStart ==
    /\ Idle
    /\ attributes # {} /\ processed_fds # << >>
    /\ decomposed_schemas' = <<attributes>>
    /\ work_list' = <<attributes>>
    /\ op' = "bcnf_loop"
    /\ status' = 0
    /\ closure_arg' = {}
    /\ closure' = {}
    /\ candidate_keys' = << >>
    /\ min_cover' = << >>
    /\ decomposed_tables' = << >>
    /\ lost_fds' = << >>
    /\ UNCHANGED <<attributes, processed_fds>>
    /\ UNCHANGED beyond_fd

\* One iteration of the while loop that finds a violation and splits the schema
\* (each local of the iteration is bound once, to its value).
BcnfSplit ==
    /\ op = "bcnf_loop"
    /\ work_list # << >>
    /\ \E current_schema_set \in {Head(work_list)} :
       \E relevant_fds \in {RelevantFds(processed_fds, current_schema_set)} :
       \E violations \in {ViolationIndexes(relevant_fds, current_schema_set)} :
           /\ violations # {}
           /\ \E fd \in {relevant_fds[Min(violations)]} :
              \E schemas \in {SplitSchemas(decomposed_schemas, current_schema_set,
                                           fd.det, fd.deps)} :
              \E wl \in {SplitWorkList(Tail(work_list), decomposed_schemas,
                                       current_schema_set, fd.det, fd.deps)} :
                  /\ decomposed_schemas' = schemas
                  /\ work_list' = CleanWorkList(wl, wl, schemas)
    /\ UNCHANGED <<attributes, processed_fds, op, status, closure_arg, closure,
                   candidate_keys, min_cover, decomposed_tables, lost_fds>>
    /\ UNCHANGED beyond_fd

\* One iteration of the while loop that finds the popped schema free of violations.
BcnfKeep ==
    /\ op = "bcnf_loop"
    /\ work_list # << >>
    /\ LET current_schema_set == Head(work_list)
           relevant_fds == RelevantFds(processed_fds, current_schema_set)
       IN  ViolationIndexes(relevant_fds, current_schema_set) = {}
    /\ work_list' = Tail(work_list)
    /\ UNCHANGED <<attributes, processed_fds, op, status, closure_arg, closure,
                   candidate_keys, min_cover, decomposed_schemas, decomposed_tables,
                   lost_fds>>
    /\ UNCHANGED beyond_fd

\* After the loop: post-processing, lost FDs, primary keys, the response.
BcnfFinish ==
    /\ op = "bcnf_loop"
    /\ work_list = << >>
    /\ LET schemas == MinimalSchemasBCNF(<< >>, SortByLen(decomposed_schemas, 0), 1)
       IN  /\ decomposed_schemas' = schemas
           /\ lost_fds' = check_fd_preservation(processed_fds, schemas)
           /\ decomposed_tables' = TablesBCNF(schemas, processed_fds)
    /\ op' = "bcnf"
    /\ status' = 200
    /\ UNCHANGED <<attributes, processed_fds, closure_arg, closure, candidate_keys,
                   min_cover, work_list>>
    /\ UNCHANGED beyond_fd

Next ==
    \/ CalculateClosure
    \/ FindCandidateKeys
    \/ GetMinimalCover
    \/ Decompose3NF
    \/ DecomposeRejected
    \/ DecomposeBcnfStart
    \/ BcnfSplit
    \/ BcnfKeep
    \/ BcnfFinish

Spec == Init /\ [][Next]_vars

\* POST /api/decompose/bcnf alone, under the scheduling of a sequential
\* handler: the worklist loop, once entered, keeps taking its next iteration.
BcnfStep == BcnfSplit \/ BcnfKeep

NextBcnf == DecomposeBcnfStart \/ BcnfSplit \/ BcnfKeep \/ BcnfFinish

SpecBcnf == Init /\ [][NextBcnf]_vars /\ WF_vars(BcnfStep)

(***************************************************************************)
(* sanitize_identifier (backend/api/helpers.py and backend/app.py).  A      *)
(* Python string is the sequence of its characters, each a one-character   *)
(* string.                                                                  *)
(***************************************************************************)
\* The backtick character (the grave accent, which a string of this notation
\* cannot hold).
backtick == "<backtick>"

\* Longest name explored.
MaxNameLen == 3

\* The characters names are drawn from: letters of both cases (o and R spell
\* the keyword OR), a digit, '_', '.', space, backtick and other punctuation.
NameAlphabet == {"o", "R", "1", "_", ".", " ", backtick, "-"}

ascii_lowercase == <<"a", "b", "c", "d", "e", "f", "g", "h", "i", "j", "k", "l", "m",
                     "n", "o", "p", "q", "r", "s", "t", "u", "v", "w", "x", "y", "z">>
ascii_uppercase == <<"A", "B", "C", "D", "E", "F", "G", "H", "I", "J", "K", "L", "M",
                     "N", "O", "P", "Q", "R", "S", "T", "U", "V", "W", "X", "Y", "Z">>
digits == {"0", "1", "2", "3", "4", "5", "6", "7", "8", "9"}

\* str.isalpha, str.isalnum of one character.
isalpha(c) == c \in Range(ascii_lowercase) \cup Range(ascii_uppercase)
isalnum(c) == isalpha(c) \/ c \in digits

\* str.upper.
upper(s) ==
    [i \in 1..Len(s) |->
        IF s[i] \in Range(ascii_lowercase)
        THEN ascii_uppercase[CHOOSE k \in 1..26 : ascii_lowercase[k] = s[i]]
        ELSE s[i]]

\* The characters of s run together into one string.
RECURSIVE Str(_)
Str(s) == IF s = << >> THEN "" ELSE Head(s) \o Str(Tail(s))

\* str.replace(old, new) for a one-character old.
RECURSIVE replace(_, _, _)
replace(s, old, new) ==
    IF s = << >> THEN << >>
    ELSE (IF Head(s) = old THEN new ELSE <<Head(s)>>) \o replace(Tail(s), old, new)

RESERVED_KEYWORDS ==
    {"TABLE", "SELECT", "INSERT", "UPDATE", "DELETE", "WHERE", "FROM", "CREATE",
     "ALTER", "DROP", "INDEX", "KEY", "PRIMARY", "FOREIGN", "GROUP", "BY", "ORDER",
     "ASC", "DESC", "HAVING", "JOIN", "LEFT", "RIGHT", "INNER", "ON", "AS", "COUNT",
     "SUM", "AVG", "MIN", "MAX", "AND", "OR", "NOT", "NULL", "IS", "LIKE"}

\* A leading-character test that prefixes exactly the names that need none.
NeedsPrefixInverted(s) == ~(s = << >> \/ ~(isalpha(s[1]) \/ s[1] = "_"))

\* not sanitized or not (sanitized[0].isalpha() or sanitized[0] == '_')
NeedsPrefix(s) == s = << >> \/ ~(isalpha(s[1]) \/ s[1] = "_")

\* A keyword test that forgets to upper-case the name.
IsReservedCaseSensitive(s) == "." \notin Range(s) /\ Str(s) \in RESERVED_KEYWORDS

\* '.' not in sanitized and sanitized.upper() in RESERVED_KEYWORDS
IsReserved(s) == "." \notin Range(s) /\ Str(upper(s)) \in RESERVED_KEYWORDS

col_ == <<"c", "o", "l", "_">>

\* sanitize_identifier of helpers.py.
sanitize_identifier(name) ==
    IF name = None \/ name = << >> THEN None
    ELSE LET spaced == replace(name, " ", <<"_">>)
             joined == [i \in 1..Len(spaced) |->
                           IF isalnum(spaced[i]) \/ spaced[i] = "_" \/ spaced[i] = "."
                           THEN spaced[i] ELSE "_"]
             led == IF NeedsPrefix(joined) THEN col_ \o joined ELSE joined
             unreserved == IF IsReserved(led) THEN col_ \o led ELSE led
         IN  replace(unreserved, backtick, <<backtick, backtick>>)

APP_RESERVED_KEYWORDS ==
    {"TABLE", "SELECT", "INSERT", "UPDATE", "DELETE", "WHERE", "FROM", "CREATE",
     "ALTER", "DROP", "INDEX", "KEY", "PRIMARY", "FOREIGN"}

tbl_ == <<"t", "b", "l", "_">>

\* sanitize_identifier of app.py.
app_sanitize_identifier(name) ==
    IF name = None \/ name = << >> THEN None
    ELSE LET spaced == replace(name, " ", <<"_">>)
             joined == [i \in 1..Len(spaced) |->
                           IF isalnum(spaced[i]) \/ spaced[i] = "_"
                           THEN spaced[i] ELSE "_"]
             led == IF NeedsPrefix(joined) THEN tbl_ \o joined ELSE joined
         IN  IF Str(upper(led)) \in APP_RESERVED_KEYWORDS THEN tbl_ \o led ELSE led

\* The strings of at most n characters of the alphabet A.
Strings(A, n) == UNION {[1..k -> A] : k \in 0..n}

InitSanitize ==
    /\ raw_name \in Strings(NameAlphabet, MaxNameLen) \cup {None}
    /\ sanitized = None
    /\ sanitized_twice = None
    /\ san_op = "idle"
    /\ BeyondSanBlank

\* sanitize_identifier(raw_name) of helpers.py.
SanitizeIdentifier ==
    /\ san_op = "idle"
    /\ sanitized' = sanitize_identifier(raw_name)
    /\ san_op' = "helpers"
    /\ UNCHANGED <<raw_name, sanitized_twice>>
    /\ UNCHANGED beyond_san

\* The result of helpers.py's sanitize_identifier sanitized again, as the SQL
\* generators do with names the routes have sanitized already.
SanitizeIdentifierAgain ==
    /\ san_op = "helpers"
    /\ sanitized # None
    /\ sanitized_twice' = sanitize_identifier(sanitized)
    /\ san_op' = "helpers_twice"
    /\ UNCHANGED <<raw_name, sanitized>>
    /\ UNCHANGED beyond_san

\* sanitize_identifier(raw_name) of app.py.
AppSanitizeIdentifier ==
    /\ san_op = "idle"
    /\ sanitized' = app_sanitize_identifier(raw_name)
    /\ san_op' = "app"
    /\ UNCHANGED <<raw_name, sanitized_twice>>
    /\ UNCHANGED beyond_san

\* The result of app.py's sanitize_identifier sanitized again.
AppSanitizeIdentifierAgain ==
    /\ san_op = "app"
    /\ sanitized # None
    /\ sanitized_twice' = app_sanitize_identifier(sanitized)
    /\ san_op' = "app_twice"
    /\ UNCHANGED <<raw_name, sanitized>>
    /\ UNCHANGED beyond_san

NextSanitize ==
    \/ SanitizeIdentifier
    \/ SanitizeIdentifierAgain
    \/ AppSanitizeIdentifier
    \/ AppSanitizeIdentifierAgain

SpecSanitize == InitSanitize /\ [][NextSanitize]_vars

(***************************************************************************)
(* build_where_clause and build_having_clause (backend/api/helpers.py).    *)
(* A condition is a record of its keys column, operator, value, connector  *)
(* and func, a key the dict lacks holding Absent.  An SQL fragment is the  *)
(* list of the words that the single spaces of the join separate.          *)
(***************************************************************************)
\* Longest conditions_list explored.
MaxConds == 2

\* A key the condition dict does not have.
Absent == <<"absent">>

\* dict.get(key, default), given the value the record holds for the key.
get(held, default) == IF held = Absent THEN default ELSE held

ALLOWED_AGGREGATES == {"COUNT", "SUM", "AVG", "MIN", "MAX"}
ALLOWED_OPERATORS ==
    {"=", "!=", ">", "<", ">=", "<=", "LIKE", "NOT LIKE", "IS NULL", "IS NOT NULL"}

\* str.strip.
RECURSIVE lstrip(_)
lstrip(s) == IF s # << >> /\ Head(s) = " " THEN lstrip(Tail(s)) ELSE s

RECURSIVE rstrip(_)
rstrip(s) ==
    IF s # << >> /\ s[Len(s)] = " " THEN rstrip(SubSeq(s, 1, Len(s) - 1)) ELSE s

strip(s) == rstrip(lstrip(s))

\* str(x).strip().upper(), as one string.
StripUpper(x) == Str(upper(strip(x)))

\* An f-string field holding a str or None.
Format(x) == IF x = None THEN "None" ELSE Str(x)

\* An identifier between backticks.
Quoted(x) == backtick \o Format(x) \o backtick

\* str.split('.', 1).
split1(s) ==
    LET dots == {i \in 1..Len(s) : s[i] = "."}
    IN  IF dots = {} THEN <<s>>
        ELSE <<SubSeq(s, 1, Min(dots) - 1), SubSeq(s, Min(dots) + 1, Len(s))>>

\* safe_col_ref of build_where_clause, target_col of build_having_clause.
safe_col_ref(column_ref) ==
    LET parts == split1(column_ref)
    IN  IF Len(parts) = 2
        THEN Quoted(sanitize_identifier(parts[1])) \o "." \o
             Quoted(sanitize_identifier(parts[2]))
        ELSE Quoted(sanitize_identifier(column_ref))

\* A condition part that writes the value into the fragment.
ConditionPartValueInlined(ref, operator, value, params) ==
    IF operator \in {"IS NULL", "IS NOT NULL"}
    THEN [words |-> <<ref, operator>>, params |-> params]
    ELSE [words |-> <<ref, operator, Format(value)>>, params |-> Append(params, value)]

\* The part a condition appends to the fragment, and the params after it.
ConditionPart(ref, operator, value, params) ==
    IF operator \in {"IS NULL", "IS NOT NULL"}
    THEN [words |-> <<ref, operator>>, params |-> params]
    ELSE [words |-> <<ref, operator, "%s">>, params |-> Append(params, value)]

\* connector of a condition: None (falsy, as the empty string is) for the first.
ConnectorOf(condition, index) ==
    IF index > 1 THEN StripUpper(get(condition.connector, <<"A", "N", "D">>)) ELSE ""

\* The loop of build_where_clause from condition index on.
RECURSIVE WhereLoop(_, _, _, _)
WhereLoop(conditions, index, where_clause_parts, where_params) ==
    IF index > Len(conditions)
    THEN [error |-> "", sql |-> where_clause_parts, params |-> where_params]
    ELSE LET condition == conditions[index]
             column_ref == get(condition.column, None)
             operator == StripUpper(get(condition.operator, <<"=">>))
             value == get(condition.value, None)
             connector == ConnectorOf(condition, index)
             raised == [error |-> "ValueError", sql |-> << >>, params |-> << >>]
         IN  IF column_ref = None \/ column_ref = << >> THEN raised
             ELSE IF operator \notin ALLOWED_OPERATORS THEN raised
             ELSE IF connector # "" /\ connector \notin {"AND", "OR"} THEN raised
             ELSE LET part == ConditionPart(safe_col_ref(column_ref), operator, value,
                                            where_params)
                      connected == IF connector # ""
                                   THEN Append(where_clause_parts, connector)
                                   ELSE where_clause_parts
                  IN  WhereLoop(conditions, index + 1, connected \o part.words,
                                part.params)

\* build_where_clause(conditions_list).
build_where_clause(type, conditions) ==
    IF type # "list" THEN [error |-> "ValueError", sql |-> << >>, params |-> << >>]
    ELSE WhereLoop(conditions, 1, << >>, << >>)

\* term of build_having_clause; "" stands for the ValueError of a '*' that is
\* not counted.
HavingTerm(column_ref, func, aliases) ==
    LET safe_column_ref == sanitize_identifier(column_ref)
    IN  IF func # ""
        THEN IF column_ref = <<"*">>
             THEN IF func # "COUNT" THEN "" ELSE func \o "(*)"
             ELSE func \o "(" \o safe_col_ref(column_ref) \o ")"
        ELSE IF safe_column_ref \in aliases \/ "." \notin Range(safe_column_ref)
             THEN Quoted(safe_column_ref)
             ELSE LET parts == split1(safe_column_ref)
                  IN  Quoted(parts[1]) \o "." \o Quoted(parts[2])

\* The loop of build_having_clause from condition index on.
RECURSIVE HavingLoop(_, _, _, _, _)
HavingLoop(conditions, aliases, index, having_clause_parts, having_params) ==
    IF index > Len(conditions)
    THEN [error |-> "", sql |-> having_clause_parts, params |-> having_params]
    ELSE LET condition == conditions[index]
             column_ref == get(condition.column, None)
             func == StripUpper(get(condition.func, << >>))
             operator == StripUpper(get(condition.operator, <<"=">>))
             value == get(condition.value, None)
             connector == ConnectorOf(condition, index)
             raised == [error |-> "ValueError", sql |-> << >>, params |-> << >>]
         IN  IF column_ref = None \/ column_ref = << >> THEN raised
             ELSE IF func # "" /\ func \notin ALLOWED_AGGREGATES THEN raised
             ELSE IF operator \notin ALLOWED_OPERATORS THEN raised
             ELSE IF connector # "" /\ connector \notin {"AND", "OR"} THEN raised
             ELSE LET term == HavingTerm(column_ref, func, aliases)
                      part == ConditionPart(term, operator, value, having_params)
                      connected == IF connector # ""
                                   THEN Append(having_clause_parts, connector)
                                   ELSE having_clause_parts
                  IN  IF term = "" THEN raised
                      ELSE HavingLoop(conditions, aliases, index + 1,
                                      connected \o part.words, part.params)

\* build_having_clause(conditions_list, allowed_select_aliases).
build_having_clause(type, conditions, aliases) ==
    IF type # "list" THEN [error |-> "ValueError", sql |-> << >>, params |-> << >>]
    ELSE HavingLoop(conditions, aliases, 1, << >>, << >>)

\* The values of the keys of the conditions explored: a plain column, a
\* qualified one, '*' and none; no operator (so '='), a lower-case one, one
\* with blanks around it, one outside the whitelist; a string value and null; no
\* connector (so AND), a lower-case one, an empty one and an unknown one; no
\* aggregate, a lower-case one, and one that does not take '*'.
Conditions ==
    LET RawColumns == {<<"o">>, <<"o", ".", "R">>, <<"*">>, Absent}
        RawOperators ==
            {Absent, <<"l", "i", "k", "e">>, <<" ", "i", "s", " ", "n", "u", "l", "l">>,
             <<"<", ">">>}
        RawValues == {<<"v", "1">>, None}
        RawConnectors == {Absent, <<"o", "r">>, << >>, <<"X", "O", "R">>}
        RawFuncs == {Absent, <<"c", "o", "u", "n", "t">>, <<"s", "u", "m">>}
    IN  [column : RawColumns, operator : RawOperators, value : RawValues,
         connector : RawConnectors, func : RawFuncs]

InitClause ==
    /\ \/ /\ conditions_type = "list"
          /\ conditions_list \in UNION {[1..n -> Conditions] : n \in 0..MaxConds}
       \/ /\ conditions_type = "dict"
          /\ conditions_list = << >>
    /\ allowed_select_aliases = {}
    /\ wh_op = "idle"
    /\ clause_sql = << >>
    /\ clause_params = << >>
    /\ clause_error = ""
    /\ BeyondWhBlank

\* build_where_clause(conditions_list).
BuildWhereClause ==
    /\ wh_op = "idle"
    /\ LET built == build_where_clause(conditions_type, conditions_list)
       IN  /\ clause_sql' = built.sql
           /\ clause_params' = built.params
           /\ clause_error' = built.error
    /\ wh_op' = "where"
    /\ UNCHANGED <<conditions_type, conditions_list, allowed_select_aliases>>
    /\ UNCHANGED beyond_wh

\* build_having_clause(conditions_list, allowed_select_aliases), the aliases
\* being none or the sanitized name of a column.
BuildHavingClause ==
    /\ wh_op = "idle"
    /\ \E aliases \in {{}, {<<"o", ".", "R">>}} :
        LET built == build_having_clause(conditions_type, conditions_list, aliases)
        IN  /\ allowed_select_aliases' = aliases
            /\ clause_sql' = built.sql
            /\ clause_params' = built.params
            /\ clause_error' = built.error
    /\ wh_op' = "having"
    /\ UNCHANGED <<conditions_type, conditions_list>>
    /\ UNCHANGED beyond_wh

NextClause ==
    \/ BuildWhereClause
    \/ BuildHavingClause

SpecClause == InitClause /\ [][NextClause]_vars

(***************************************************************************)
(* execute_dml_statement (backend/api/dml_routes.py).  The log holds, in   *)
(* order, what the handler did to the database: connect, cursor, execute   *)
(* (with the statement), commit, rollback, close.                           *)
(***************************************************************************)
\* An entry of the log; sql is the statement of an execute, as its words.
Event(ev) == [ev |-> ev, sql |-> << >>]
Execute(sql) == [ev |-> "execute", sql |-> sql]

\* The column names of a dict, sanitized, in key order.
SanitizedColumns(names) == [i \in 1..Len(names) |-> sanitize_identifier(names[i])]

\* all(columns): no sanitized name is None.
AllValid(columns) == \A i \in 1..Len(columns) : columns[i] # None

\* ', '.join of the words of a list.
RECURSIVE JoinComma(_)
JoinComma(ws) ==
    IF ws = << >> THEN ""
    ELSE IF Len(ws) = 1 THEN ws[1]
    ELSE ws[1] \o ", " \o JoinComma(Tail(ws))

\* The statement of a request that passed validation, as its words.
InsertSql(table_name, columns) ==
    <<"INSERT INTO", Quoted(table_name),
      "(" \o JoinComma([i \in 1..Len(columns) |-> Quoted(columns[i])]) \o ")",
      "VALUES", "(" \o JoinComma([i \in 1..Len(columns) |-> "%s"]) \o ");">>

UpdateSql(table_name, columns, where_clause_sql) ==
    <<"UPDATE", Quoted(table_name), "SET",
      JoinComma([i \in 1..Len(columns) |-> Quoted(columns[i]) \o " = %s"]), "WHERE">>
    \o where_clause_sql \o <<";">>

DeleteSql(table_name, where_clause_sql) ==
    <<"DELETE FROM", Quoted(table_name), "WHERE">> \o where_clause_sql \o <<";">>

\* The outcome of the generation of the statement (lines 51-106): the status of
\* an early return, or 0 and the statement; where is what build_where_clause
\* gives for the WHERE conditions of the request.
GenerateDml(operation, table_name, request, where) ==
    LET where_missing == request.where_type \in {"absent", "empty"} \/
                         (request.where_type = "list" /\ request.where = << >>)
        where_invalid == where.error # "" \/ where.sql = << >>
        rejected == [status |-> 400, sql |-> << >>]
    IN  IF operation = "INSERT"
        THEN IF request.values_type # "list" \/ request.values = << >> THEN rejected
             ELSE LET columns == SanitizedColumns(request.values[1])
                  IN  IF ~AllValid(columns) THEN rejected
                      ELSE [status |-> 0, sql |-> InsertSql(table_name, columns)]
        ELSE IF operation = "UPDATE"
        THEN IF request.set = << >> THEN rejected
             ELSE IF where_missing THEN rejected
             ELSE IF where_invalid THEN rejected
             ELSE LET columns == SanitizedColumns(request.set)
                  IN  IF ~AllValid(columns) THEN rejected
                      ELSE [status |-> 0, sql |-> UpdateSql(table_name, columns, where.sql)]
        ELSE IF operation = "DELETE"
        THEN IF where_missing THEN rejected
             ELSE IF where_invalid THEN rejected
             ELSE [status |-> 0, sql |-> DeleteSql(table_name, where.sql)]
        ELSE rejected

\* The try block of lines 38-151 with its except and finally clauses; db tells
\* which of the calls to the database succeed, and generated is what the
\* generation of the statement gives once the cursor is open.
DmlTryBlock(generated, db) ==
    IF ~db.connect THEN [status |-> 500, log |-> << >>]
    ELSE IF ~db.cursor
    THEN [status |-> 500, log |-> <<Event("connect"), Event("rollback"), Event("close")>>]
    ELSE LET opened == <<Event("connect"), Event("cursor")>>
         IN  IF generated.status # 0
             THEN [status |-> generated.status, log |-> Append(opened, Event("close"))]
             ELSE IF ~db.execute
             THEN [status |-> 500,
                   log |-> opened \o <<Execute(generated.sql), Event("rollback"),
                                       Event("close")>>]
             ELSE IF ~db.commit
             THEN [status |-> 500,
                   log |-> opened \o <<Execute(generated.sql), Event("commit"),
                                       Event("rollback"), Event("close")>>]
             ELSE [status |-> 200,
                   log |-> opened \o <<Execute(generated.sql), Event("commit"),
                                       Event("close")>>]

\* execute_dml_statement.
execute_dml_statement(request, db) ==
    IF request.body # "object" THEN [status |-> 400, log |-> << >>]
    ELSE LET operation == Str(upper(get(request.operation, << >>)))
             table_name == sanitize_identifier(get(request.table, None))
         IN  IF table_name = None THEN [status |-> 400, log |-> << >>]
             ELSE DmlTryBlock(
                      GenerateDml(operation, table_name, request,
                                  build_where_clause(request.where_type, request.where)),
                      db)

\* The requests explored (a row of values and the set dict are the lists of
\* their keys).  operation: three supported ones (one in lower case),
\* an unsupported one, none.  table: a plain name, one that needs a prefix,
\* none.  values: absent, no row, a row of one column, a row whose column name is
\* empty.  set: none, one column, a column whose name is empty.  where: absent,
\* an empty JSON value, a JSON object, or a list of conditions.
DmlRequests ==
    LET DmlOperations ==
            {<<"U", "P", "D", "A", "T", "E">>, <<"d", "e", "l", "e", "t", "e">>,
             <<"I", "N", "S", "E", "R", "T">>, <<"M", "E", "R", "G", "E">>, Absent}
        DmlTables == {<<"o">>, <<"1">>, Absent}
        DmlValues ==
            [values_type : {"absent"}, values : {<< >>}] \cup
            [values_type : {"list"},
             values : {<< >>, << << <<"o">> >> >>, << << << >> >> >>}]
        DmlSets == {<< >>, << <<"o">> >>, << << >> >>}
        DmlConditions ==
            [column : {<<"o">>, Absent}, operator : {Absent, <<"<", ">">>},
             value : {<<"v", "1">>}, connector : {Absent, << >>}, func : {Absent}]
        DmlWheres ==
            [where_type : {"absent", "empty", "dict"}, where : {<< >>}] \cup
            [where_type : {"list"},
             where : UNION {[1..n -> DmlConditions] : n \in 0..MaxConds}]
    IN  {[body |-> b] : b \in {"not json", "empty"}} \cup
        {[body |-> "object", operation |-> o, table |-> t, values_type |-> v.values_type,
          values |-> v.values, set |-> s, where_type |-> w.where_type, where |-> w.where] :
            o \in DmlOperations, t \in DmlTables, v \in DmlValues, s \in DmlSets,
            w \in DmlWheres}

\* Which calls to the database succeed.
DbOutcomes == [connect : BOOLEAN, cursor : BOOLEAN, execute : BOOLEAN, commit : BOOLEAN]

InitDml ==
    /\ dml_request \in DmlRequests
    /\ dml_op = "idle"
    /\ dml_status = 0
    /\ dml_log = << >>
    /\ BeyondDmlBlank

\* POST /api/execute_dml.
ExecuteDmlStatement ==
    /\ dml_op = "idle"
    /\ \E db \in DbOutcomes :
        \E response \in {execute_dml_statement(dml_request, db)} :
            /\ dml_status' = response.status
            /\ dml_log' = response.log
    /\ dml_op' = "done"
    /\ UNCHANGED dml_request
    /\ UNCHANGED beyond_dml

NextDml == ExecuteDmlStatement

SpecDml == InitDml /\ [][NextDml]_vars

(***************************************************************************)
(* save_decomposition (backend/api/normalization_routes.py) with           *)
(* get_table_schema_details, generate_create_table_sql and                 *)
(* generate_data_migration_sql (backend/api/normalization_utils.py).  The  *)
(* log holds what the handler did to the database, in order; a statement   *)
(* is logged with its kind, the table it names and whether it succeeded.   *)
(***************************************************************************)
\* Largest number of decomposed tables explored.
MaxTables == 2

\* An entry of the log of save_decomposition.
Did(ev) == [ev |-> ev, kind |-> "", table |-> "", ok |-> TRUE]
Statement(kind, table, ok) == [ev |-> "execute", kind |-> kind, table |-> table, ok |-> ok]

\* The validation of one decomposed table before its CREATE TABLE is generated
\* (line 500) and inside generate_create_table_sql (lines 267-274).
PkInSchema(table_info) == table_info.primary_key \subseteq table_info.attributes

CreatableTable(table_info) ==
    /\ table_info.attributes # {}
    /\ table_info.primary_key \cap table_info.attributes # {}

\* The steps of the try block in program order, up to the commit: each is a call
\* to the database or a validation.
CreateSteps(table_info) ==
    <<[step |-> "check_pk", info |-> table_info],
      [step |-> "drop_if_exists", info |-> table_info],
      [step |-> "generate_create", info |-> table_info],
      [step |-> "create", info |-> table_info]>>

MigrateSteps(table_info) == <<[step |-> "insert_select", info |-> table_info]>>

\* The steps of the two loops over decomposed_tables_info.
RECURSIVE CreateLoop(_)
CreateLoop(infos) ==
    IF infos = << >> THEN << >> ELSE CreateSteps(Head(infos)) \o CreateLoop(Tail(infos))

RECURSIVE MigrateLoop(_)
MigrateLoop(infos) ==
    IF infos = << >> THEN << >> ELSE MigrateSteps(Head(infos)) \o MigrateLoop(Tail(infos))

NoTable == [new_table_name |-> << >>, attributes |-> {}, primary_key |-> {}]

SaveSteps(decomposed_tables_info) ==
    <<[step |-> "start_transaction", info |-> NoTable], [step |-> "cursor", info |-> NoTable]>>
    \o CreateLoop(decomposed_tables_info)
    \o MigrateLoop(decomposed_tables_info)
    \o <<[step |-> "drop_original", info |-> NoTable]>>

\* An except clause that returns the error without rolling back.
SaveFailedNoRollback(log) == [status |-> 500, log |-> Append(log, Did("close"))]

\* The except clauses (lines 543-562) and the finally clause, with a connection.
SaveFailed(log) == [status |-> 500, log |-> log \o <<Did("rollback"), Did("close")>>]

\* The try block from step i on; calls counts the calls made to the database
\* and fail_at is the call that fails (0: none does).
RECURSIVE SaveRun(_, _, _, _, _, _)
SaveRun(steps, i, calls, fail_at, original_table_name, log) ==
    IF i > Len(steps)
    THEN IF calls + 1 = fail_at
         THEN SaveFailed(Append(log, [Did("commit") EXCEPT !.ok = FALSE]))
         ELSE [status |-> 200, log |-> log \o <<Did("commit"), Did("close")>>]
    ELSE LET s == steps[i]
             new_name == Format(sanitize_identifier(s.info.new_table_name))
             ok == calls + 1 # fail_at
         IN  IF s.step = "check_pk"
             THEN IF PkInSchema(s.info)
                  THEN SaveRun(steps, i + 1, calls, fail_at, original_table_name, log)
                  ELSE SaveFailed(Append(log, Did("invalid")))
             ELSE IF s.step = "generate_create"
             THEN IF CreatableTable(s.info)
                  THEN SaveRun(steps, i + 1, calls, fail_at, original_table_name, log)
                  ELSE SaveFailed(Append(log, Did("invalid")))
             ELSE LET entry ==
                          IF s.step \in {"start_transaction", "cursor"}
                          THEN [Did(s.step) EXCEPT !.ok = ok]
                          ELSE IF s.step = "drop_original"
                          THEN Statement(s.step,
                                         Format(sanitize_identifier(original_table_name)), ok)
                          ELSE Statement(s.step, new_name, ok)
                  IN  IF ok
                      THEN SaveRun(steps, i + 1, calls + 1, fail_at, original_table_name,
                                   Append(log, entry))
                      ELSE SaveFailed(Append(log, entry))

\* A get_table_schema_details that leaves its connection open.
SchemaDetailsUnclosed(table_name, outcome) ==
    IF sanitize_identifier(table_name) = None \/ outcome = "no connection"
    THEN [raised |-> TRUE, log |-> << >>]
    ELSE [raised |-> outcome # "ok",
          log |-> <<Did("connect"),
                    Statement("describe", Format(sanitize_identifier(table_name)),
                              outcome # "describe fails")>>]

\* get_table_schema_details(table_name): what it did to the database and
\* whether it raised; outcome tells how the database answers.
get_table_schema_details(table_name, outcome) ==
    IF sanitize_identifier(table_name) = None THEN [raised |-> TRUE, log |-> << >>]
    ELSE IF outcome = "no connection" THEN [raised |-> TRUE, log |-> << >>]
    ELSE LET safe_table_name == Format(sanitize_identifier(table_name))
         IN  [raised |-> outcome # "ok",
              log |-> <<Did("connect"),
                        Statement("describe", safe_table_name, outcome # "describe fails"),
                        Did("close")>>]

\* save_decomposition; db tells how the database answers: the outcome of the
\* schema query, whether the connection is obtained, and which later call fails.
save_decomposition(request, db) ==
    IF request.body # "object" THEN [status |-> 400, log |-> << >>]
    ELSE IF request.original_table = Absent \/ request.original_table = << >>
            \/ request.decomposed_tables = << >>
    THEN [status |-> 400, log |-> << >>]
    ELSE LET details == get_table_schema_details(request.original_table, db.schema)
         IN  IF details.raised THEN [status |-> 500, log |-> details.log]
             ELSE IF ~db.connect THEN [status |-> 500, log |-> details.log]
             ELSE SaveRun(SaveSteps(request.decomposed_tables), 1, 0, db.fail_at,
                          request.original_table, Append(details.log, Did("connect")))

\* The requests explored: the original table R_ (or none), and up to MaxTables
\* decomposed tables over the columns o and R whose names are o or "R ", the
\* latter sanitizing to the name of the original table.
SaveRequests ==
    LET SaveTableInfos ==
            [new_table_name : {<<"o">>, <<"R", " ">>},
             attributes : SUBSET {<<"o">>, <<"R">>},
             primary_key : SUBSET {<<"o">>, <<"R">>}]
    IN  {[body |-> b] : b \in {"not json", "empty"}} \cup
        [body : {"object"}, original_table : {<<"R", "_">>, Absent},
         decomposed_tables : UNION {[1..n -> SaveTableInfos] : n \in 0..MaxTables}]

\* The calls the try block makes to the database for t tables, the commit included.
SaveCalls(t) == 2 + 3 * t + 2

SaveDbOutcomes ==
    [schema : {"ok", "no connection", "describe fails", "no columns"},
     connect : BOOLEAN, fail_at : 0..SaveCalls(MaxTables)]

InitSave ==
    /\ sv_request \in SaveRequests
    /\ sv_op = "idle"
    /\ sv_status = 0
    /\ sv_log = << >>
    /\ BeyondSvBlank

\* POST /api/save_decomposition.
SaveDecomposition ==
    /\ sv_op = "idle"
    /\ \E db \in SaveDbOutcomes :
        \E response \in {save_decomposition(sv_request, db)} :
            /\ sv_status' = response.status
            /\ sv_log' = response.log
    /\ sv_op' = "done"
    /\ UNCHANGED sv_request
    /\ UNCHANGED beyond_sv

NextSave == SaveDecomposition

SpecSave == InitSave /\ [][NextSave]_vars

(***************************************************************************)
(* analyze_normalization (backend/api/normalization_routes.py).  The        *)
(* columns of the table are the integers 1..n, and 0 is a name that is no  *)
(* column of it; the names of the FDs are given in the form                 *)
(* sanitize_identifier returns and leaves unchanged.                        *)
(***************************************************************************)
\* Largest number of columns of an analyzed table.
NumTableAttrs == 3
\* Largest number of FDs in the payload.
MaxUserFDs == 2

\* processed_fds[determinants].update(dependents), or a new entry at the end.
DictUpdate(d, det, deps) ==
    LET i == DictIndex(d, det)
    IN  IF i = 0 THEN Append(d, [det |-> det, deps |-> deps])
        ELSE [d EXCEPT ![i].deps = @ \cup deps]

\* The validation of one FD of the payload (lines 59-64).
ValidFd(fd, all_attributes) ==
    /\ fd.det # {} /\ fd.deps # {}
    /\ fd.det \subseteq all_attributes
    /\ fd.deps \subseteq all_attributes
    /\ fd.det \cap fd.deps = {}

\* The loop over user_fds_raw from FD i on: the dict, or the ValueError raised.
RECURSIVE ProcessFds(_, _, _, _)
ProcessFds(processed, user_fds, i, all_attributes) ==
    IF i > Len(user_fds) THEN [error |-> FALSE, fds |-> processed]
    ELSE IF ~ValidFd(user_fds[i], all_attributes) THEN [error |-> TRUE, fds |-> << >>]
    ELSE ProcessFds(DictUpdate(processed, user_fds[i].det, user_fds[i].deps),
                    user_fds, i + 1, all_attributes)

\* Step 2: processed_fds, starting from PK -> non-PK attributes.
ProcessedFds(all_attributes, pk, user_fds) ==
    LET non_pk_attributes == all_attributes \ pk
        start == IF pk # {} /\ non_pk_attributes # {}
                 THEN <<[det |-> pk, deps |-> non_pk_attributes]>>
                 ELSE << >>
    IN  ProcessFds(start, user_fds, 1, all_attributes)

\* A range that also takes the candidate key itself for one of its parts.
PartSizesWithWhole(ck_set) == 1..Cardinality(ck_set)

\* range(1, len(ck_set)): the sizes of the non-empty proper subsets.
PartSizes(ck_set) == 1..(Cardinality(ck_set) - 1)

\* The 2NF loop over the subsets of one candidate key, from size k on.
RECURSIVE PartialOfSubsets(_, _, _, _, _, _)
PartialOfSubsets(violations, subsets, i, ck_set, fds_dict, scope) ==
    IF i > Len(subsets) THEN violations
    ELSE LET subset_set == subsets[i]
             subset_closure == calculate_closure(subset_set, fds_dict, scope.all)
             partially_determined_non_primes == subset_closure \cap scope.non_prime
             found == IF partially_determined_non_primes # {}
                      THEN AppendIfAbsent(violations,
                                          [subset |-> subset_set,
                                           determined |-> partially_determined_non_primes,
                                           ck |-> ck_set])
                      ELSE violations
         IN  PartialOfSubsets(found, subsets, i + 1, ck_set, fds_dict, scope)

RECURSIVE PartialOfKey(_, _, _, _, _, _)
PartialOfKey(violations, k, ck_set, fds_dict, scope, ord) ==
    IF k \notin PartSizes(ck_set) THEN violations
    ELSE PartialOfKey(PartialOfSubsets(violations, combinations(SetToList(ck_set, ord), k),
                                       1, ck_set, fds_dict, scope),
                      k + 1, ck_set, fds_dict, scope, ord)

\* The 2NF loop over the candidate keys, from key i on.
RECURSIVE PartialDependencies(_, _, _, _, _, _)
PartialDependencies(violations, cks, i, fds_dict, scope, ord) ==
    IF i > Len(cks) THEN violations
    ELSE PartialDependencies(
             IF Cardinality(cks[i]) > 1
             THEN PartialOfKey(violations, 1, cks[i], fds_dict, scope, ord)
             ELSE violations,
             cks, i + 1, fds_dict, scope, ord)

\* A 3NF test that does not ask whether the dependent is prime.
IsTransitiveIgnoringPrime(dependent, determinant_set, prime_attributes) ==
    dependent \notin determinant_set

\* The 3NF test of one dependent of a determinant that is no superkey.
IsTransitive(dependent, determinant_set, prime_attributes) ==
    dependent \notin determinant_set /\ dependent \notin prime_attributes

\* The 3NF loop over the dependents of one dict entry, in set order.
RECURSIVE TransitiveOfEntry(_, _, _, _)
TransitiveOfEntry(violations, determinant_set, dependents, prime_attributes) ==
    IF dependents = << >> THEN violations
    ELSE TransitiveOfEntry(
             IF IsTransitive(Head(dependents), determinant_set, prime_attributes)
             THEN AppendIfAbsent(violations,
                                 [det |-> determinant_set, dependent |-> Head(dependents)])
             ELSE violations,
             determinant_set, Tail(dependents), prime_attributes)

\* The 3NF loop over processed_fds.items(), from entry i on.
RECURSIVE TransitiveDependencies(_, _, _, _, _)
TransitiveDependencies(violations, fds_dict, i, scope, ord) ==
    IF i > Len(fds_dict) THEN violations
    ELSE LET determinant_set == fds_dict[i].det
             is_superkey == calculate_closure(determinant_set, fds_dict, scope.all) = scope.all
         IN  TransitiveDependencies(
                 IF ~is_superkey
                 THEN TransitiveOfEntry(violations, determinant_set,
                                        SetToList(fds_dict[i].deps, ord), scope.prime)
                 ELSE violations,
                 fds_dict, i + 1, scope, ord)

\* A BCNF loop that records no violation.
BcnfViolationsNone(violations, fds_dict, i, all_attributes) == violations

\* The BCNF loop over processed_fds.items(), from entry i on.
RECURSIVE BcnfViolations(_, _, _, _)
BcnfViolations(violations, fds_dict, i, all_attributes) ==
    IF i > Len(fds_dict) THEN violations
    ELSE LET determinant_set == fds_dict[i].det
             dependents_set == fds_dict[i].deps
             is_superkey ==
                 calculate_closure(determinant_set, fds_dict, all_attributes) = all_attributes
         IN  BcnfViolations(
                 IF ~(dependents_set \subseteq determinant_set) /\ ~is_superkey
                 THEN AppendIfAbsent(violations,
                                     [det |-> determinant_set,
                                      determines |-> dependents_set \ determinant_set])
                 ELSE violations,
                 fds_dict, i + 1, all_attributes)

\* The status and the violations of one normal form.
Checked(violations) ==
    [status |-> IF violations = << >> THEN "COMPLIANT" ELSE "VIOLATION_DETECTED",
     violations |-> violations]

\* analyze_normalization from step 1 on, given how the schema query ended; ord
\* is the iteration order of the sets of column names.
analyze_normalization(schema_raised, all_attributes, pk, user_fds, ord) ==
    IF schema_raised \/ pk = {} THEN [status |-> 400, results |-> NoResults]
    ELSE LET processed == ProcessedFds(all_attributes, pk, user_fds)
             cks == find_candidate_keys(SetToList(all_attributes, ord), processed.fds)
             prime_attributes == UNION Range(cks)
             scope == [all |-> all_attributes, prime |-> prime_attributes,
                       non_prime |-> all_attributes \ prime_attributes]
         IN  IF processed.error THEN [status |-> 400, results |-> NoResults]
             ELSE IF cks = << >>
             THEN [status |-> 400,
                   results |-> [NoResults EXCEPT !.processedFds = processed.fds]]
             ELSE [status |-> 200,
                   results |->
                       [processedFds |-> processed.fds,
                        candidateKeys |-> cks,
                        nf2 |-> Checked(PartialDependencies(<< >>, cks, 1, processed.fds,
                                                            scope, ord)),
                        nf3 |-> Checked(TransitiveDependencies(<< >>, processed.fds, 1,
                                                               scope, ord)),
                        bcnf |-> Checked(BcnfViolations(<< >>, processed.fds, 1,
                                                        all_attributes))]]

\* The FDs of the payload explored: the well-formed ones over the columns, and
\* one for each way of being rejected (an empty side, a name that is no
\* column, an attribute on both sides).
RawFDs(U) ==
    FDs(U) \cup
    {[det |-> {}, deps |-> {1}], [det |-> {1}, deps |-> {}],
     [det |-> {0}, deps |-> {1}], [det |-> {1}, deps |-> {0}],
     [det |-> {1}, deps |-> {1}]}

InitAnalyze ==
    /\ table_attributes \in {1..n : n \in 1..NumTableAttrs}
    /\ pk_set \in SUBSET table_attributes
    /\ user_fds_raw \in UNION {[1..n -> RawFDs(table_attributes)] : n \in 0..MaxUserFDs}
    /\ an_op = "idle"
    /\ an_status = 0
    /\ results = NoResults
    /\ BeyondAnBlank

\* POST /api/analyze_normalization for a table with a name.
AnalyzeNormalization ==
    /\ an_op = "idle"
    /\ \E schema_raised \in BOOLEAN : \E ord \in Perms(table_attributes) :
        LET response == analyze_normalization(schema_raised, table_attributes, pk_set,
                                              user_fds_raw, ord)
        IN  /\ an_status' = response.status
            /\ results' = response.results
    /\ an_op' = "done"
    /\ UNCHANGED <<table_attributes, pk_set, user_fds_raw>>
    /\ UNCHANGED beyond_an

NextAnalyze == AnalyzeNormalization

SpecAnalyze == InitAnalyze /\ [][NextAnalyze]_vars

(***************************************************************************)
(* get_minimal_cover on larger dicts: the payloads of up to MaxCoverFDs     *)
(* FDs over NumCoverAttrs attributes, which hold two equivalent attributes  *)
(* next to a determinant made of both.                                      *)
(***************************************************************************)
NumCoverAttrs == 3
MaxCoverFDs == 3

CoverFDDicts(U) ==
    UNION {{d \in [1..n -> FDs(U)] : \A i, j \in 1..n : d[i].det = d[j].det => i = j}
           : n \in 0..MaxCoverFDs}

InitCover ==
    /\ attributes \in {1..n : n \in 2..NumCoverAttrs}
    /\ processed_fds \in CoverFDDicts(attributes)
    /\ op = "idle"
    /\ status = 0
    /\ closure_arg = {}
    /\ closure = {}
    /\ candidate_keys = << >>
    /\ min_cover = << >>
    /\ decomposed_schemas = << >>
    /\ work_list = << >>
    /\ decomposed_tables = << >>
    /\ lost_fds = << >>
    /\ BeyondFdBlank

NextCover == GetMinimalCover

SpecCover == InitCover /\ [][NextCover]_vars

(***************************************************************************)
(* handle_schema (backend/app.py): the canvas diff apply.  The log holds   *)
(* what the handler did to the database, in order, as the log of           *)
(* save_decomposition does.  The calls to the database are numbered in the *)
(* order they are made; db.fails is the set of the calls that raise Error. *)
(***************************************************************************)
\* Largest number of tables on the canvas explored.
MaxCanvasTables == 2

\* The ids of the nodes of the canvas; 0 stands for a missing id.
NodeIds == 1..MaxCanvasTables

\* reversed(s).
reversed(s) == [i \in 1..Len(s) |-> s[Len(s) + 1 - i]]

\* The locals of handle_schema once the connection is obtained (lines
\* 158-167): st.raised tells that an exception is on its way to the except
\* clause, st.crashed that one leaves the handler, st.cursor that the cursor
\* was obtained.
SchemaStart ==
    [log |-> <<Did("connect")>>, calls |-> 0, cursor |-> FALSE, raised |-> FALSE,
     crashed |-> FALSE, errors |-> {}, dropped_tables |-> << >>,
     added_foreign_keys |-> << >>, created_tables_details |-> << >>,
     node_id_to_safe_name |-> [id \in NodeIds |-> ""]]

\* A call to the database: it is logged, and it raises Error when its number
\* is in fails.
HsDo(st, entry, fails) ==
    [st EXCEPT !.log = Append(@, [entry EXCEPT !.ok = (st.calls + 1) \notin fails]),
               !.calls = @ + 1]

\* Whether the last call raised Error.
LastFailed(st) == ~st.log[Len(st.log)].ok

\* errors[key].append(...).
Recorded(st, key) == [st EXCEPT !.errors = @ \cup {key}]

\* A call of the try block outside any inner try: its Error reaches the
\* except clause of line 348.
Must(st, entry, fails) ==
    IF st.raised THEN st
    ELSE [HsDo(st, entry, fails) EXCEPT !.raised = (st.calls + 1) \in fails]

\* The two loops of phase 0c (lines 195-217): the tables removed from the
\* canvas (explicit) and the tables of the canvas that exist in the database.
Dropped(st, table, explicit) ==
    IF LastFailed(st) THEN Recorded(st, "dropping")
    ELSE IF explicit THEN [st EXCEPT !.dropped_tables = Append(@, table)]
    ELSE st

RECURSIVE DropLoop(_, _, _, _, _)
DropLoop(st, tables, explicit, existing_db_tables, fails) ==
    IF st.raised \/ tables = << >> THEN st
    ELSE IF ~explicit /\ Head(tables) \notin existing_db_tables
    THEN DropLoop(st, Tail(tables), explicit, existing_db_tables, fails)
    ELSE DropLoop(Dropped(HsDo(st, Statement("drop", Head(tables), TRUE), fails),
                          Head(tables), explicit),
                  Tail(tables), explicit, existing_db_tables, fails)

\* One pass of the loop of phase 1 (lines 226-273).
CreateTable(st, table_info, fails) ==
    LET safe_table_name == app_sanitize_identifier(table_info.name)
        attributes_ == table_info.attributes
        named == {i \in 1..Len(attributes_) :
                     app_sanitize_identifier(attributes_[i].name) # None}
        checked == IF Cardinality(named) < Len(attributes_)
                   THEN Recorded(st, "table_creation") ELSE st
        executed == HsDo(checked, Statement("create", Format(safe_table_name), TRUE), fails)
    IN  IF safe_table_name = None \/ table_info.id = 0 \/ named = {}
        THEN Recorded(st, "table_creation")
        ELSE IF LastFailed(executed) THEN Recorded(executed, "table_creation")
        ELSE [executed EXCEPT !.node_id_to_safe_name[table_info.id] =
                                  Format(safe_table_name)]

RECURSIVE CreateTables(_, _, _)
CreateTables(st, tables, fails) ==
    IF st.raised \/ tables = << >> THEN st
    ELSE CreateTables(CreateTable(st, Head(tables), fails), Tail(tables), fails)

\* Lines 275-282: the table creations are committed, or rolled back and the
\* request given up.
CommitCreations(st, fails) ==
    IF st.raised THEN st
    ELSE IF "table_creation" \notin st.errors THEN Must(st, Did("commit"), fails)
    ELSE [HsDo(st, Did("rollback"), fails) EXCEPT !.raised = TRUE]

\* The except clause of lines 326-343, after the Error of a statement of the
\* foreign key.
FkError(st, source_table_name, fk_info, errno, fails) ==
    LET again == HsDo(st, Statement("add_constraint", source_table_name, TRUE), fails)
    IN  IF errno = 1060
        THEN IF LastFailed(again) THEN Recorded(again, "fk_creation")
             ELSE [again EXCEPT !.added_foreign_keys = Append(@, fk_info)]
        ELSE IF errno = 1061 THEN st
        ELSE Recorded(st, "fk_creation")

\* One pass of the loop of phase 2 (lines 285-343).
AddForeignKey(st, fk_info, errno, fails) ==
    LET source_table_name == st.node_id_to_safe_name[fk_info.sourceTableId]
        target_table_name == st.node_id_to_safe_name[fk_info.targetTableId]
        add_col == HsDo(st, Statement("add_column", source_table_name, TRUE), fails)
        add_fk == HsDo(add_col, Statement("add_constraint", source_table_name, TRUE), fails)
    IN  IF source_table_name = "" \/ target_table_name = ""
        THEN Recorded(st, "fk_creation")
        ELSE IF LastFailed(add_col)
        THEN FkError(add_col, source_table_name, fk_info, errno, fails)
        ELSE IF LastFailed(add_fk)
        THEN FkError(add_fk, source_table_name, fk_info, errno, fails)
        ELSE [add_fk EXCEPT !.added_foreign_keys = Append(@, fk_info)]

RECURSIVE AddForeignKeys(_, _, _, _)
AddForeignKeys(st, relationships, errno, fails) ==
    IF st.raised \/ relationships = << >> THEN st
    ELSE AddForeignKeys(AddForeignKey(st, Head(relationships), errno, fails),
                        Tail(relationships), errno, fails)

\* The except clause of lines 348-355; an Error of the rollback leaves the
\* handler.
SchemaExcept(st, fails) ==
    IF ~st.raised THEN st
    ELSE [HsDo(Recorded(st, "general"), Did("rollback"), fails)
              EXCEPT !.crashed = (st.calls + 1) \in fails]

\* A finally clause that only closes the connection.
SchemaFinallyNoReset(st, fails) == [st EXCEPT !.log = Append(@, Did("close"))]

\* The finally clause of lines 356-365.
SchemaFinally(st, fails) ==
    IF st.cursor
    THEN [st EXCEPT !.log = HsDo(st, Statement("fk_checks_on", "", TRUE), fails).log
                            \o <<Did("close")>>]
    ELSE [st EXCEPT !.log = Append(@, Did("close"))]

\* The response of lines 367-393; an exception that left the handler is
\* answered with 500.
SchemaResponse(st) ==
    LET has_errors == st.errors # {}
        has_success == \/ st.created_tables_details # << >>
                       \/ st.added_foreign_keys # << >>
                       \/ st.dropped_tables # << >>
    IN  [status |-> IF st.crashed THEN 500
                    ELSE IF ~has_errors THEN 200
                    ELSE IF has_success THEN 207 ELSE 400,
         log |-> st.log,
         response |-> [errors |-> st.errors, dropped_tables |-> st.dropped_tables,
                       added_foreign_keys |-> st.added_foreign_keys,
                       created_tables |-> st.created_tables_details]]

\* handle_schema; db tells how the database answers: whether the connection
\* is obtained, the tables SHOW TABLES lists (in the hash order of their
\* names), the calls that fail and the errno of a failing statement of a
\* foreign key.
handle_schema(request, db) ==
    IF request.body # "object"
    THEN [status |-> 400, log |-> << >>, response |-> NoSchemaResponse]
    ELSE IF ~db.connect
    THEN [status |-> 500, log |-> << >>, response |-> NoSchemaResponse]
    ELSE LET fails == db.fails
             existing_db_tables == Range(db.tables)
             tables_on_canvas_safe_names ==
                 {Format(app_sanitize_identifier(request.tables[i].name)) :
                     i \in {j \in 1..Len(request.tables) : request.tables[j].name # << >>}}
             on_canvas(t) == t \in tables_on_canvas_safe_names
             off_canvas(t) == t \notin tables_on_canvas_safe_names
             with_cursor == [Must(SchemaStart, Did("cursor"), fails)
                                 EXCEPT !.cursor = 1 \notin fails]
             shown == Must(with_cursor, Statement("show_tables", "", TRUE), fails)
             fetched == IF with_cursor.cursor /\ shown.raised
                        THEN Recorded(shown, "fetching") ELSE shown
             disabled == Must(fetched, Statement("fk_checks_off", "", TRUE), fails)
             removed == DropLoop(disabled, reversed(SelectSeq(db.tables, off_canvas)),
                                 TRUE, existing_db_tables, fails)
             cleared == DropLoop(removed,
                                 reversed(SelectSeq(db.tables, on_canvas)
                                          \o SetToList(tables_on_canvas_safe_names
                                                           \ existing_db_tables,
                                                       <<"a", "b">>)),
                                 FALSE, existing_db_tables, fails)
             drops_committed == Must(cleared, Did("commit"), fails)
             enabled == Must(drops_committed, Statement("fk_checks_on", "", TRUE), fails)
             created == CreateTables(enabled, request.tables, fails)
             settled == CommitCreations(created, fails)
             linked == AddForeignKeys(settled, request.relationships, db.errno, fails)
             committed == Must(linked, Did("commit"), fails)
         IN  SchemaResponse(SchemaFinally(SchemaExcept(committed, fails), fails))

\* The calls the try block and the finally clause make to the database for t
\* tables on the canvas, d tables in the database and r relationships, at most.
SchemaCalls(t, d, r) == 3 + d + 2 + t + 1 + 3 * r + 1 + 1

\* The sets of at most two of the calls 1..n.
FailureSets(n) == {{i, j} \ {0} : i, j \in 0..n}

InitSchema ==
    /\ hs_request \in
        LET Column == [name |-> <<"k">>, isPK |-> TRUE]
            CanvasTableChoices ==
                [name : {<<"a">>, <<"b">>, << >>}, has_id : {TRUE},
                 attributes : {<< >>, <<Column>>}] \cup
                {[name |-> <<"a">>, has_id |-> FALSE, attributes |-> <<Column>>],
                 [name |-> <<"a">>, has_id |-> TRUE,
                  attributes |-> <<[Column EXCEPT !.name = << >>]>>]}
            CanvasTables(n) ==
                {[i \in 1..n |-> [name |-> c[i].name,
                                  id |-> IF c[i].has_id THEN i ELSE 0,
                                  attributes |-> c[i].attributes]] :
                    c \in [1..n -> CanvasTableChoices]}
        IN  {[body |-> b] : b \in {"not json", "empty"}} \cup
            [body : {"object"},
             tables : UNION {CanvasTables(n) : n \in 0..MaxCanvasTables},
             relationships : {<< >>} \cup
                 {<<[sourceTableId |-> i, targetTableId |-> j]>> :
                     i, j \in NodeIds}]
    /\ hs_op = "idle"
    /\ hs_status = 0
    /\ hs_response = NoSchemaResponse
    /\ hs_log = << >>
    /\ BeyondHsBlank

\* POST /api/schema.
HandleSchema ==
    /\ hs_op = "idle"
    /\ \E db \in [connect : {FALSE}, tables : {<< >>}, fails : {{}}, errno : {1822}] \cup
                 [connect : {TRUE},
                  tables : {<< >>, <<"a">>, <<"b">>, <<"a", "b">>, <<"b", "a">>},
                  fails : FailureSets(SchemaCalls(MaxCanvasTables, 2, 1)),
                  errno : {1060, 1061, 1822}] :
        \E answer \in {handle_schema(hs_request, db)} :
            /\ hs_status' = answer.status
            /\ hs_response' = answer.response
            /\ hs_log' = answer.log
    /\ hs_op' = "done"
    /\ UNCHANGED hs_request
    /\ UNCHANGED beyond_hs

NextSchema == HandleSchema

SpecSchema == InitSchema /\ [][NextSchema]_vars

(***************************************************************************)
(* execute_select_query (backend/api/query_routes.py), for queries of      *)
(* plain columns without JOIN, WHERE, GROUP BY, HAVING and ORDER BY, and   *)
(* the specification of the four handlers that open a connection.          *)
(***************************************************************************)
\* execute_select_query; db tells which calls to the database succeed.
execute_select_query(request, db) ==
    IF request.body # "object" THEN [status |-> 400, log |-> << >>]
    ELSE IF request.from = << >> \/ request.select = << >> \/ Len(request.from) > 1
    THEN [status |-> 400, log |-> << >>]
    ELSE IF \E i \in 1..Len(request.select) :
                \/ request.select[i].type # "column"
                \/ sanitize_identifier(get(request.select[i].table, None)) = None
                \/ sanitize_identifier(get(request.select[i].column, None)) = None
    THEN [status |-> 400, log |-> << >>]
    ELSE IF sanitize_identifier(request.from[1]) = None
    THEN [status |-> 400, log |-> << >>]
    ELSE LET first_table == Format(sanitize_identifier(request.from[1]))
             unreached_tables == {Str(request.from[1])} \ {first_table}
             select_tables_used ==
                 {Format(sanitize_identifier(request.select[i].table)) :
                     i \in 1..Len(request.select)}
             opened == <<Did("connect"), [Did("cursor") EXCEPT !.ok = db.cursor]>>
             executed == Append(opened, Statement("select", first_table, db.execute))
         IN  IF unreached_tables # {} \/ select_tables_used \ {first_table} # {}
             THEN [status |-> 400, log |-> << >>]
             ELSE IF ~db.connect THEN [status |-> 500, log |-> << >>]
             ELSE IF ~db.cursor THEN [status |-> 500, log |-> Append(opened, Did("close"))]
             ELSE IF ~db.execute
             THEN [status |-> 500, log |-> Append(executed, Did("close"))]
             ELSE [status |-> IF db.fetchall THEN 200 ELSE 500,
                   log |-> executed \o <<[Did("fetchall") EXCEPT !.ok = db.fetchall],
                                         Did("close")>>]

InitQuery ==
    /\ q_request \in
        LET Names == {<<"o">>, <<"1">>}
            SelectItems ==
                [type : {"column", "literal"}, table : Names \cup {Absent},
                 column : {<<"c">>, Absent}]
        IN  {[body |-> b] : b \in {"not json", "empty"}} \cup
            [body : {"object"},
             from : UNION {[1..n -> Names] : n \in 0..2},
             select : UNION {[1..n -> SelectItems] : n \in 0..2}]
    /\ q_op = "idle"
    /\ q_status = 0
    /\ q_log = << >>
    /\ BeyondQBlank

\* POST /api/execute_select.
ExecuteSelectQuery ==
    /\ q_op = "idle"
    /\ \E db \in [connect : BOOLEAN, cursor : BOOLEAN, execute : BOOLEAN,
                  fetchall : BOOLEAN] :
        \E response \in {execute_select_query(q_request, db)} :
            /\ q_status' = response.status
            /\ q_log' = response.log
    /\ q_op' = "done"
    /\ UNCHANGED q_request
    /\ UNCHANGED beyond_q

\* One request to one of the handlers that open a connection.
InitHandlers == InitDml \/ InitSave \/ InitSchema \/ InitQuery

NextHandlers ==
    ExecuteDmlStatement \/ SaveDecomposition \/ HandleSchema \/ ExecuteSelectQuery

SpecHandlers == InitHandlers /\ [][NextHandlers]_vars

(***************************************************************************)
(* Notions the properties are stated with.                                 *)
(***************************************************************************)
\* The attributes of the FDs of a dict.
FdAttributes(fds_dict) ==
    UNION {fds_dict[i].det \cup fds_dict[i].deps : i \in 1..Len(fds_dict)}

\* X -> a for every entry X -> Y of F and a in Y follows from G.
Implies(G, F) ==
    \A i \in 1..Len(F) : \A a \in F[i].deps :
        a \in calculate_closure(F[i].det, G, attributes)

\* X is a superkey of the attribute set S under the FDs F.
IsSuperkey(X, F, S) == calculate_closure(X, F, S) = S

\* The minimal superkeys of S under F.
MinimalSuperkeys(F, S) ==
    {X \in SUBSET S : /\ IsSuperkey(X, F, S)
                      /\ \A W \in SUBSET X : W # X => ~IsSuperkey(W, F, S)}

\* ProjectFDs(F, S): X -> (Closure(X, F) & S) \ X for every X -> Y of F with X in S,
\* without the trivial results.
ProjectFDs(F, S) ==
    LET proj == [i \in 1..Len(F) |->
                    [det |-> F[i].det,
                     deps |-> (calculate_closure(F[i].det, F, attributes) \cap S) \ F[i].det]]
        Kept(fd) == fd.det \subseteq S /\ fd.deps # {}
    IN  SelectSeq(proj, Kept)

\* The closure of Z under the union of the projections of F onto the schemas.
RECURSIVE ClosureOverSchemas(_, _, _)
ClosureOverSchemas(Z, schemas, F) ==
    LET Z2 == Z \cup UNION {calculate_closure(Z \cap schemas[i], F, attributes) \cap schemas[i]
                            : i \in 1..Len(schemas)}
    IN  IF Z2 = Z THEN Z ELSE ClosureOverSchemas(Z2, schemas, F)

\* The chase of the tableau of the schemas under F.  Row r holds 0 (the
\* distinguished symbol) in the columns of schemas[r] and r elsewhere.
Tableau(schemas) ==
    [r \in 1..Len(schemas) |-> [a \in attributes |-> IF a \in schemas[r] THEN 0 ELSE r]]

RECURSIVE Chase(_, _)
Chase(T, F) ==
    LET rows == DOMAIN T
        todo == {v \in (1..Len(F)) \X rows \X rows \X attributes :
                    /\ v[4] \in F[v[1]].deps
                    /\ \A x \in F[v[1]].det : T[v[2]][x] = T[v[3]][x]
                    /\ T[v[2]][v[4]] < T[v[3]][v[4]]}
    IN  IF todo = {} THEN T
        ELSE LET v == CHOOSE w \in todo : TRUE
                 lo == T[v[2]][v[4]]
                 hi == T[v[3]][v[4]]
             IN  Chase([r \in rows |-> [T[r] EXCEPT ![v[4]] = IF @ = hi THEN lo ELSE @]], F)

LosslessJoin(schemas, F) ==
    \E r \in 1..Len(schemas) : \A a \in attributes : Chase(Tableau(schemas), F)[r][a] = 0

TableSchemas(tables) == [i \in 1..Len(tables) |-> tables[i].attributes]

(***************************************************************************)
(* Properties                                                              *)
(***************************************************************************)
\* C1: the cover returned by get_minimal_cover(F) is logically equivalent to F:
\* every FD X -> a of F has a in the closure of X under the cover, and every
\* FD X -> a of the cover has a in the closure of X under F.
C1_MinimalCoverEquivalent ==
    op = "minimal_cover" =>
        /\ Implies(min_cover, processed_fds)
        /\ Implies(processed_fds, min_cover)

\* C2: 3NF synthesis preserves dependencies: for every FD X -> Y of F, Y lies in
\* the closure of X under the union of the FDs of F projected onto the returned
\* sub-schemas.
C2_DependencyPreserving3NF ==
    op = "3nf" =>
        \A i \in 1..Len(processed_fds) :
            processed_fds[i].deps \subseteq
                ClosureOverSchemas(processed_fds[i].det, TableSchemas(decomposed_tables),
                                   processed_fds)

\* C3: the sub-schemas returned by decompose_3nf together contain every
\* attribute that appears on either side of an FD of F.
C3_SchemasCoverFdAttributes ==
    op = "3nf" =>
        FdAttributes(processed_fds) \subseteq UNION Range(TableSchemas(decomposed_tables))

\* C4: every sub-schema S returned by decompose_bcnf is in BCNF with respect to
\* the closure-based projection of F onto S: every FD X -> Y of F with X inside S
\* and (Closure(X, F) & S) \ X non-empty has X a superkey of S.
C4_SubSchemasInBcnf ==
    op = "bcnf" =>
        \A t \in Range(decomposed_tables) : \A i \in 1..Len(processed_fds) :
            LET X == processed_fds[i].det
                S == t.attributes
            IN  (/\ X \subseteq S
                 /\ (calculate_closure(X, processed_fds, attributes) \cap S) \ X # {})
                => IsSuperkey(X, ProjectFDs(processed_fds, S), S)

\* C5: the decomposition of decompose_bcnf is lossless-join with respect to F:
\* the chase of the sub-schemas under F yields a row of distinguished symbols,
\* after every split of the worklist loop and for the returned sub-schemas.
C5_BcnfLosslessJoin ==
    op \in {"bcnf_loop", "bcnf"} => LosslessJoin(decomposed_schemas, processed_fds)

\* C5 witness: a decomposition into three or more sub-schemas was returned.
C5_Witness ==
    /\ op = "bcnf"
    /\ Len(decomposed_tables) >= 3
    /\ TableSchemas(decomposed_tables) = decomposed_schemas

\* C6: with the candidate keys of R in the payload, some sub-schema returned by
\* decompose_3nf contains a whole candidate key of R.
C6_SomeSchemaHoldsCandidateKey ==
    op = "3nf" =>
        /\ Range(candidate_keys) = MinimalSuperkeys(processed_fds, attributes)
        /\ \E t \in Range(decomposed_tables) : \E ck \in Range(candidate_keys) :
               ck \subseteq t.attributes

\* C6 witness: no schema of the minimal cover held a candidate key, the key
\* schema was appended and survived the removal of subset schemas.
C6_Witness ==
    /\ op = "3nf"
    /\ min_cover # << >>
    /\ ~CkFound(CoverSchemas(min_cover), candidate_keys)
    /\ candidate_keys[1] \in Range(decomposed_schemas)

\* C7: find_candidate_keys(U, F) returns exactly the minimal superkeys of U:
\* every returned key is a superkey, no strict subset of one is a superkey, no
\* returned key is a subset of another, every superkey contains a returned key.
C7_CandidateKeysAreMinimalSuperkeys ==
    op = "candidate_keys" =>
        LET keys == Range(candidate_keys)
        IN  /\ \A K \in keys : IsSuperkey(K, processed_fds, attributes)
            /\ \A K \in keys : \A W \in SUBSET K :
                   W # K => ~IsSuperkey(W, processed_fds, attributes)
            /\ \A K, L \in keys : K \subseteq L => K = L
            /\ \A i, j \in 1..Len(candidate_keys) :
                   candidate_keys[i] = candidate_keys[j] => i = j
            /\ \A X \in SUBSET attributes :
                   IsSuperkey(X, processed_fds, attributes) => \E K \in keys : K \subseteq X

\* C7 witness: several keys were returned, one of them composite.
C7_Witness ==
    /\ op = "candidate_keys"
    /\ Len(candidate_keys) >= 2
    /\ \E K \in Range(candidate_keys) : Cardinality(K) >= 2

\* C8: calculate_closure is a closure operator: the result contains X, closing
\* the result again changes nothing, X inside Y gives closure(X) inside
\* closure(Y), and the closure of the empty set is empty.
C8_ClosureOperator ==
    op = "closure" =>
        /\ closure_arg \subseteq closure
        /\ calculate_closure(closure, processed_fds, attributes) = closure
        /\ \A Y \in SUBSET attributes :
               closure_arg \subseteq Y =>
                   closure \subseteq calculate_closure(Y, processed_fds, attributes)
        /\ closure_arg = {} => closure = {}

\* C8 witness: a closure that took more than one pass over the FDs.
C8_Witness ==
    /\ op = "closure"
    /\ closure # ClosurePass(closure_arg, processed_fds, 1)

\* C9: the primary key reported for a sub-schema of decompose_3nf is the
\* determinant X of the minimal-cover FD X -> Y that generated the sub-schema,
\* and for the appended candidate-key sub-schema it is that whole candidate key.
C9_PrimaryKeyIsGeneratingDeterminant ==
    op = "3nf" =>
        \A t \in Range(decomposed_tables) :
            \/ \E i \in 1..Len(min_cover) :
                   /\ min_cover[i].det \cup min_cover[i].deps = t.attributes
                   /\ t.primary_key = min_cover[i].det
            \/ /\ t.attributes \notin Range(CoverSchemas(min_cover))
               /\ t.attributes = candidate_keys[1]
               /\ t.primary_key = t.attributes

\* C10: the primary key reported for a sub-schema S of decompose_bcnf is a
\* candidate key of S under the closure-based projection of F onto S, the one
\* of smallest cardinality, ties broken lexicographically.
C10_PrimaryKeyIsSmallestCandidateKey ==
    op = "bcnf" =>
        \A t \in Range(decomposed_tables) :
            LET keys == MinimalSuperkeys(ProjectFDs(processed_fds, t.attributes), t.attributes)
            IN  /\ t.primary_key \in keys
                /\ \A K \in keys \ {t.primary_key} :
                       \/ Cardinality(t.primary_key) < Cardinality(K)
                       \/ /\ Cardinality(t.primary_key) = Cardinality(K)
                          /\ TupleLess(t.primary_key, K)

\* The FDs of G without the single FD X -> a.
WithoutFd(G, X, a) ==
    LET cut == [i \in 1..Len(G) |->
                   IF G[i].det = X THEN [G[i] EXCEPT !.deps = @ \ {a}] ELSE G[i]]
        NonEmpty(e) == e.deps # {}
    IN  SelectSeq(cut, NonEmpty)

\* C11: the cover returned by get_minimal_cover is minimal: no FD X -> a of it
\* has an attribute x in X with a in the closure of X \ {x} under the cover, and
\* no FD X -> a of it is derivable from the other FDs of the cover.
C11_MinimalCoverIsMinimal ==
    op = "minimal_cover" =>
        \A i \in 1..Len(min_cover) : \A a \in min_cover[i].deps :
            LET X == min_cover[i].det
            IN  /\ \A x \in X :
                       a \notin calculate_closure(X \ {x}, min_cover, attributes)
                /\ a \notin calculate_closure(X, WithoutFd(min_cover, X, a), attributes)

\* C11 witness: a cover of two or more FDs in which a determinant of F was
\* shortened by step 2.
C11_Witness ==
    /\ op = "minimal_cover"
    /\ Len(min_cover) >= 2
    /\ \E i \in 1..Len(min_cover) : \E j \in 1..Len(processed_fds) :
           /\ min_cover[i].det # processed_fds[j].det
           /\ min_cover[i].det \subseteq processed_fds[j].det
           /\ min_cover[i].deps \cap processed_fds[j].deps # {}
           /\ \A k \in 1..Len(processed_fds) : min_cover[i].det # processed_fds[k].det

\* C18: every non-null result of sanitize_identifier contains no backtick and,
\* when it contains no '.', is not equal case-insensitively to any keyword of
\* the reserved list.
C18_NoBacktickNoKeyword ==
    (san_op = "helpers" /\ sanitized # None) =>
        /\ backtick \notin Range(sanitized)
        /\ "." \notin Range(sanitized) => Str(upper(sanitized)) \notin RESERVED_KEYWORDS

\* C18 witness: a name that spells a reserved keyword in mixed case was sanitized.
C18_Witness ==
    /\ san_op = "helpers"
    /\ raw_name # None
    /\ Str(upper(raw_name)) \in RESERVED_KEYWORDS
    /\ raw_name # upper(raw_name)
    /\ sanitized # None

\* C19: sanitize_identifier is idempotent: whenever sanitize_identifier(raw) is
\* not null, sanitizing it again returns it unchanged (both for the sanitizer
\* of helpers.py and for that of app.py).
C19_SanitizeIdempotent ==
    san_op \in {"helpers_twice", "app_twice"} => sanitized_twice = sanitized

\* C19 witness: a name the sanitizer had to change was sanitized twice.
C19_Witness ==
    /\ san_op = "helpers_twice"
    /\ sanitized # raw_name
    /\ SubSeq(sanitized, 1, 4) = col_

\* A non-empty string of letters, digits and '_' that starts with a letter or '_'.
IsPlainIdentifier(s) ==
    /\ s # << >>
    /\ isalpha(s[1]) \/ s[1] = "_"
    /\ \A i \in 1..Len(s) : isalnum(s[i]) \/ s[i] = "_"

\* C20: every non-null result of sanitize_identifier is a valid Identifier: a
\* non-empty string with at most one '.', in which the whole string (or, when a
\* '.' is present, both the qualifier and the local name) starts with a letter
\* or '_' and consists only of letters, digits and '_'.
C20_ResultIsValidIdentifier ==
    (san_op = "helpers" /\ sanitized # None) =>
        LET dots == {i \in 1..Len(sanitized) : sanitized[i] = "."}
        IN  /\ Cardinality(dots) <= 1
            /\ IF dots = {} THEN IsPlainIdentifier(sanitized)
               ELSE LET d == CHOOSE i \in dots : TRUE
                    IN  /\ IsPlainIdentifier(SubSeq(sanitized, 1, d - 1))
                        /\ IsPlainIdentifier(SubSeq(sanitized, d + 1, Len(sanitized)))

\* The operator of a condition as the builders read it.
OperatorOf(condition) == StripUpper(get(condition.operator, <<"=">>))

TakesValue(condition) == OperatorOf(condition) \notin {"IS NULL", "IS NOT NULL"}

\* C16: for every condition list a builder accepts, the returned params list is
\* exactly the sequence of the value fields of the conditions whose operator is
\* not IS NULL / IS NOT NULL, in input order, and no value field appears in the
\* returned SQL fragment.
C16_ParamsAreTheValuesInOrder ==
    (wh_op \in {"where", "having"} /\ clause_error = "") =>
        LET valued == SelectSeq(conditions_list, TakesValue)
        IN  /\ clause_params = [i \in 1..Len(valued) |-> get(valued[i].value, None)]
            /\ \A i \in 1..Len(conditions_list) : \A w \in Range(clause_sql) :
                   conditions_list[i].value # None => w # Str(conditions_list[i].value)

\* C16 witness: build_having_clause accepted two conditions that both carry
\* a value, one of them under IS NULL.
C16_Witness ==
    /\ wh_op = "having"
    /\ clause_error = ""
    /\ Len(conditions_list) = 2
    /\ \A i \in 1..2 : conditions_list[i].value # None
    /\ ~TakesValue(conditions_list[1])
    /\ TakesValue(conditions_list[2])
    /\ Len(clause_params) = 1

\* The number of words condition i contributes, and the place of its first word
\* when every later condition is preceded by one connector.
WordsOf(condition) == IF TakesValue(condition) THEN 3 ELSE 2

RECURSIVE StartOf(_, _)
StartOf(conditions, i) ==
    IF i = 1 THEN 1 ELSE StartOf(conditions, i - 1) + WordsOf(conditions[i - 1]) + 1

\* C17: build_where_clause returns a fragment only if every condition's operator
\* is in the whitelist and every non-first condition's connector is AND or OR
\* (AND when absent), and fails otherwise; in a returned fragment the first
\* condition has no connector in front of it and each later condition is preceded
\* by exactly its connector.  Operators and connectors are compared as the
\* builder reads them (trimmed, in upper case).
C17_WhereFragmentWellFormed ==
    (wh_op = "where" /\ conditions_type = "list") =>
        LET n == Len(conditions_list)
            ConnectorAt(i) == StripUpper(get(conditions_list[i].connector, <<"A", "N", "D">>))
            whitelisted ==
                /\ \A i \in 1..n : OperatorOf(conditions_list[i]) \in ALLOWED_OPERATORS
                /\ \A i \in 2..n : ConnectorAt(i) \in {"AND", "OR"}
        IN  /\ ~whitelisted => clause_error # ""
            /\ (clause_error = "" /\ n > 0) =>
                   /\ Len(clause_sql) = StartOf(conditions_list, n) + WordsOf(conditions_list[n]) - 1
                   /\ clause_sql[1] \notin {"AND", "OR"}
                   /\ \A i \in 2..n :
                          clause_sql[StartOf(conditions_list, i) - 1] = ConnectorAt(i)

\* C15: for an UPDATE or DELETE request to execute_dml_statement whose where
\* list is missing or empty, no UPDATE or DELETE statement is executed, no
\* commit is issued, and the response status is 400.
C15_EmptyWhereRejected ==
    (/\ dml_op = "done"
     /\ dml_request.body = "object"
     /\ Str(upper(get(dml_request.operation, << >>))) \in {"UPDATE", "DELETE"}
     /\ \/ dml_request.where_type \in {"absent", "empty"}
        \/ dml_request.where_type = "list" /\ dml_request.where = << >>)
    => /\ \A i \in 1..Len(dml_log) : dml_log[i].ev \notin {"execute", "commit"}
       /\ dml_status = 400

\* The statements save_decomposition issues inside its transaction.
SaveStatementKinds == {"drop_if_exists", "create", "insert_select", "drop_original"}

\* The places of the log that hold a successful statement of the kind.
Succeeded(kind) ==
    {i \in 1..Len(sv_log) :
        sv_log[i].ev = "execute" /\ sv_log[i].kind = kind /\ sv_log[i].ok}

\* C14: in save_decomposition a commit is issued only after every DROP IF
\* EXISTS, CREATE TABLE, INSERT ... SELECT DISTINCT and the final DROP of the
\* original table have all succeeded; if any of these statements or a
\* validation of a decomposed table fails, rollback is issued, commit is never
\* issued, and an error response is returned.
C14_CommitOnlyAfterAllSucceeded ==
    sv_op = "done" =>
        LET commits == {i \in 1..Len(sv_log) : sv_log[i].ev = "commit"}
            failures == {i \in 1..Len(sv_log) :
                            \/ sv_log[i].ev = "invalid"
                            \/ /\ sv_log[i].ev = "execute"
                               /\ sv_log[i].kind \in SaveStatementKinds
                               /\ ~sv_log[i].ok}
            tables == Len(sv_request.decomposed_tables)
        IN  /\ \A c \in commits :
                   /\ failures = {}
                   /\ \A kind \in SaveStatementKinds : \A i \in Succeeded(kind) : i < c
                   /\ Cardinality(Succeeded("drop_if_exists")) = tables
                   /\ Cardinality(Succeeded("create")) = tables
                   /\ Cardinality(Succeeded("insert_select")) = tables
                   /\ Cardinality(Succeeded("drop_original")) = 1
            /\ failures # {} =>
                   /\ commits = {}
                   /\ \E r \in 1..Len(sv_log) :
                          sv_log[r].ev = "rollback" /\ \A i \in failures : i < r
                   /\ sv_status >= 400

\* C14 witness: the INSERT ... SELECT of the second of two tables failed after
\* both tables were created.
C14_Witness ==
    /\ sv_op = "done"
    /\ Cardinality(Succeeded("create")) = 2
    /\ Cardinality(Succeeded("insert_select")) = 1
    /\ \E i \in 1..Len(sv_log) :
           sv_log[i].ev = "execute" /\ sv_log[i].kind = "insert_select" /\ ~sv_log[i].ok

\* F of the analysis: the FDs of the payload plus PK -> (U minus PK).
AnalyzedFds ==
    <<[det |-> pk_set, deps |-> table_attributes \ pk_set]>> \o user_fds_raw

\* The attributes of the table that belong to no candidate key under F.
NonPrime == table_attributes \ UNION MinimalSuperkeys(AnalyzedFds, table_attributes)

\* C12: analyze_normalization reports 2NF as VIOLATION_DETECTED exactly when
\* some candidate key c with more than one attribute has a non-empty proper
\* subset s whose closure under F = user FDs plus PK -> (U minus PK) contains a
\* non-prime attribute, and as COMPLIANT otherwise.
C12_SecondNormalFormReport ==
    (an_op = "done" /\ an_status = 200) =>
        LET partial ==
                \E c \in MinimalSuperkeys(AnalyzedFds, table_attributes) :
                    /\ Cardinality(c) > 1
                    /\ \E s \in SUBSET c :
                           /\ s # {} /\ s # c
                           /\ calculate_closure(s, AnalyzedFds, table_attributes)
                                  \cap NonPrime # {}
        IN  results.nf2.status = IF partial THEN "VIOLATION_DETECTED" ELSE "COMPLIANT"

\* C12 witness: a table whose key has two attributes was analyzed with an FD
\* of the payload from one of them, and a partial dependency was reported.
C12_Witness ==
    /\ an_op = "done" /\ an_status = 200
    /\ Cardinality(pk_set) = 2
    /\ Len(user_fds_raw) >= 1
    /\ results.candidateKeys = <<pk_set>>
    /\ results.nf2.status = "VIOLATION_DETECTED"
    /\ Len(results.nf2.violations) >= 1

\* The pairs (X, a) of an FD X -> Y of F with X no superkey and a in Y minus X
\* in no candidate key.
TransitivePairs ==
    {p \in (SUBSET table_attributes) \X table_attributes :
        /\ \E i \in 1..Len(AnalyzedFds) :
               AnalyzedFds[i].det = p[1] /\ p[2] \in AnalyzedFds[i].deps \ p[1]
        /\ ~IsSuperkey(p[1], AnalyzedFds, table_attributes)
        /\ p[2] \in NonPrime}

\* C13: analyze_normalization reports 3NF as VIOLATION_DETECTED exactly when
\* some FD X -> Y of F has a non-superkey determinant X and an attribute a in
\* Y minus X that belongs to no candidate key, recording one violation per such
\* pair (X, a), and as COMPLIANT otherwise.
C13_ThirdNormalFormReport ==
    (an_op = "done" /\ an_status = 200) =>
        LET recorded == results.nf3.violations
        IN  /\ results.nf3.status =
                   IF TransitivePairs # {} THEN "VIOLATION_DETECTED" ELSE "COMPLIANT"
            /\ {<<recorded[i].det, recorded[i].dependent>> : i \in 1..Len(recorded)}
                   = TransitivePairs
            /\ Len(recorded) = Cardinality(TransitivePairs)

\* C13 witness: two FDs of the payload share a determinant that is no superkey,
\* and a violation was recorded for a dependent of each.
C13_Witness ==
    /\ an_op = "done" /\ an_status = 200
    /\ Len(user_fds_raw) = 2
    /\ user_fds_raw[1].det = user_fds_raw[2].det
    /\ Len(results.nf3.violations) >= 1
    /\ results.nf3.status = "VIOLATION_DETECTED"
    /\ results.nf2.status = "COMPLIANT"

\* The FDs X -> a of a dict, as a set of pairs.
CoverPairs(fds_dict) ==
    UNION {{<<fds_dict[i].det, a>> : a \in fds_dict[i].deps} : i \in 1..Len(fds_dict)}

\* C24: the cover returned by get_minimal_cover(F) is the same set of FDs for
\* every order in which the attributes of a determinant are tried for removal:
\* the cover returned under one order equals the one returned under any other.
C24_CoverIndependentOfOrder ==
    op = "minimal_cover" =>
        \A ord \in Perms(attributes) :
            CoverPairs(get_minimal_cover(processed_fds, ord)) = CoverPairs(min_cover)

\* No schema of the list is a subset of, or equal to, one at another position.
IsAntichain(schemas) ==
    \A i, j \in 1..Len(schemas) : i # j => ~(schemas[i] \subseteq schemas[j])

\* C26: the sub-schemas returned by decompose_bcnf form an antichain without
\* duplicates, and so does decomposed_schemas in every state of the worklist
\* loop: no schema of the list is a subset of, or equal to, another one.
C26_SchemasFormAntichain ==
    op \in {"bcnf_loop", "bcnf"} => IsAntichain(decomposed_schemas)

C26_Witness ==
    /\ op = "bcnf"
    /\ Len(decomposed_schemas) >= 3
    /\ \E i, j \in 1..Len(decomposed_schemas) :
           i # j /\ decomposed_schemas[i] \cap decomposed_schemas[j] # {}

\* C27: the worklist loop of decompose_bcnf terminates: every split puts only
\* schemas in decomposed_schemas and work_list that are strictly smaller than
\* the popped schema, and once the loop is entered the worklist eventually
\* becomes empty.
C27_WorklistLoopTerminates ==
    /\ [][BcnfSplit =>
            \A s \in (Range(decomposed_schemas') \ Range(decomposed_schemas))
                     \cup (Range(work_list') \ Range(work_list)) :
                s \subseteq Head(work_list) /\ s # Head(work_list)]_vars
    /\ (op = "bcnf_loop") ~> (work_list = << >>)

C27_Witness ==
    /\ op = "bcnf_loop"
    /\ work_list = << >>
    /\ Len(decomposed_schemas) >= 3

\* C28: the statuses of one report of analyze_normalization are nested: a
\* report with BCNF COMPLIANT has 3NF COMPLIANT, and a report with 3NF
\* COMPLIANT has 2NF COMPLIANT.
C28_NormalFormsNested ==
    (an_op = "done" /\ an_status = 200) =>
        /\ results.bcnf.status = "COMPLIANT" => results.nf3.status = "COMPLIANT"
        /\ results.nf3.status = "COMPLIANT" => results.nf2.status = "COMPLIANT"

\* C28 witness: a report of a table with a composite key and FDs of the payload
\* that is 3NF and 2NF COMPLIANT while BCNF is violated.
C28_Witness ==
    /\ an_op = "done" /\ an_status = 200
    /\ Cardinality(pk_set) >= 2
    /\ Len(user_fds_raw) >= 1
    /\ results.bcnf.status = "VIOLATION_DETECTED"
    /\ results.nf3.status = "COMPLIANT"
    /\ results.nf2.status = "COMPLIANT"

\* C29: save_decomposition executes no DROP statement on the sanitized name of
\* the original table before every INSERT ... SELECT DISTINCT migration has
\* succeeded: each DROP of the log that names that table comes after one
\* successful migration per decomposed table.
C29_OriginalDroppedAfterMigrations ==
    (sv_op = "done" /\ sv_request.body = "object") =>
        \A i \in 1..Len(sv_log) :
            (/\ sv_log[i].ev = "execute"
             /\ sv_log[i].kind \in {"drop_if_exists", "drop_original"}
             /\ sv_log[i].table = Format(sanitize_identifier(sv_request.original_table)))
            => Cardinality({j \in 1..(i - 1) :
                               sv_log[j].kind = "insert_select" /\ sv_log[j].ok})
                   = Len(sv_request.decomposed_tables)

\* The calls of the log of handle_schema whose event or statement kind is in names.
HsCalls(names) ==
    {i \in 1..Len(hs_log) : hs_log[i].ev \in names \/ hs_log[i].kind \in names}

\* C21: handle_schema runs as a single transaction: at most one commit is
\* issued (exactly one when the response is 200), no DROP, CREATE or ALTER
\* statement follows it, and when an error of table creation is recorded no
\* commit has succeeded, so that the drops of the request are rolled back.
C21_SingleTransaction ==
    hs_op = "done" =>
        /\ Cardinality(HsCalls({"commit"})) <= 1
        /\ hs_status = 200 => Cardinality(HsCalls({"commit"})) = 1
        /\ \A c \in HsCalls({"commit"}) :
               \A w \in HsCalls({"drop", "create", "add_column", "add_constraint"}) : w < c
        /\ "table_creation" \in hs_response.errors =>
               \A c \in HsCalls({"commit"}) : ~hs_log[c].ok

\* C23: a response of handle_schema built from the recorded errors and effects
\* has status 200 exactly when no error was recorded, 207 whenever an error
\* was recorded and a table was created, a table was dropped or a foreign key
\* was added, and 400 only when an error was recorded and nothing succeeded.
C23_StatusReflectsOutcome ==
    (hs_op = "done" /\ hs_log # << >> /\ hs_status # 500) =>
        LET has_errors == hs_response.errors # {}
            has_effect ==
                \/ \E i \in HsCalls({"create", "drop"}) : hs_log[i].ok
                \/ hs_response.added_foreign_keys # << >>
        IN  /\ hs_status = 200 <=> ~has_errors
            /\ (has_errors /\ has_effect) => hs_status = 207
            /\ hs_status = 400 => (has_errors /\ ~has_effect)

\* C30: once handle_schema has executed SET FOREIGN_KEY_CHECKS=0, it issues
\* SET FOREIGN_KEY_CHECKS=1 afterwards and before the connection is closed,
\* whatever fails in between; and every CREATE TABLE and ADD CONSTRAINT issued
\* after the checks were disabled comes after a successful
\* SET FOREIGN_KEY_CHECKS=1.
C30_ForeignKeyChecksRestored ==
    hs_op = "done" =>
        \A off \in HsCalls({"fk_checks_off"}) :
            hs_log[off].ok =>
                /\ \E on \in HsCalls({"fk_checks_on"}) :
                       /\ off < on
                       /\ \A c \in HsCalls({"close"}) : on < c
                /\ \A w \in HsCalls({"create", "add_constraint"}) :
                       off < w => \E on \in HsCalls({"fk_checks_on"}) :
                                      off < on /\ on < w /\ hs_log[on].ok

\* C30 witness: the checks were disabled, a table was dropped, a CREATE TABLE
\* failed after the checks were enabled again, and the connection was closed.
C30_Witness ==
    /\ hs_op = "done"
    /\ \E off \in HsCalls({"fk_checks_off"}) : hs_log[off].ok
    /\ \E d \in HsCalls({"drop"}) : hs_log[d].ok
    /\ \E w \in HsCalls({"create"}) : ~hs_log[w].ok
    /\ HsCalls({"close"}) # {}

\* Every connection opened in the log is closed before the next one is opened
\* and before the log ends.
ClosesConnections(log) ==
    \A i \in 1..Len(log) :
        log[i].ev = "connect" =>
            \E j \in (i + 1)..Len(log) :
                /\ log[j].ev = "close"
                /\ \A k \in (i + 1)..(j - 1) : log[k].ev # "connect"

\* C22: execute_dml_statement, save_decomposition with the
\* get_table_schema_details it calls, execute_select_query and handle_schema
\* close every connection they obtained before they return, whatever the exit
\* path.
C22_ConnectionsClosed ==
    /\ dml_op = "done" => ClosesConnections(dml_log)
    /\ sv_op = "done" => ClosesConnections(sv_log)
    /\ q_op = "done" => ClosesConnections(q_log)
    /\ hs_op = "done" => ClosesConnections(hs_log)

\* C22 witness: save_decomposition obtained two connections, the one of
\* get_table_schema_details and its own, a statement failed and the response
\* is 500.
C22_Witness ==
    /\ sv_op = "done" /\ sv_status = 500
    /\ Cardinality({i \in 1..Len(sv_log) : sv_log[i].ev = "connect"}) = 2
    /\ \E i \in 1..Len(sv_log) : sv_log[i].ev = "execute" /\ ~sv_log[i].ok
    /\ sv_log[Len(sv_log)].ev = "close"

\* C25: a request that fails the validation of its input is rejected before
\* any work on the database, so its log is empty: a request answered 400 by
\* execute_dml_statement or execute_select_query, a decomposition with a
\* table whose primary key is not among its attributes, a schema that is no
\* JSON object or has a table without name, id or named attribute.
C25_ValidationBeforeDatabase ==
    /\ (dml_op = "done" /\ dml_status = 400) => dml_log = << >>
    /\ (q_op = "done" /\ q_status = 400) => q_log = << >>
    /\ (/\ sv_op = "done" /\ sv_request.body = "object"
        /\ \E i \in 1..Len(sv_request.decomposed_tables) :
               ~PkInSchema(sv_request.decomposed_tables[i]))
       => sv_log = << >>
    /\ (/\ hs_op = "done"
        /\ \/ hs_request.body # "object"
           \/ \E i \in 1..Len(hs_request.tables) :
                  \/ hs_request.tables[i].name = << >>
                  \/ hs_request.tables[i].id = 0
                  \/ \A a \in 1..Len(hs_request.tables[i].attributes) :
                         hs_request.tables[i].attributes[a].name = << >>)
       => hs_log = << >>

====
